---- MODULE Spec2Model ----
(***************************************************************************)
(* Boolean retrieval over a disk-resident inverted index:                  *)
(*   lab7/boolindex.py   builds docs.tsv, dict.tsv and postings.bin        *)
(*   lab8/boolsearch.py  parses and evaluates AND / OR / NOT queries       *)
(*   lab8/web.py         the web front end's own copy of the evaluator     *)
(* Files are sequences (of lines, of rows, of bytes); posting lists are    *)
(* sequences of document ids, as the Python lists are.                     *)
(***************************************************************************)
EXTENDS Integers, Sequences, FiniteSets, TLC

VARIABLES
    \* ---- set algebra on posting lists, one operation at a time
    opA, opB,        \* the two argument lists
    opN,             \* n_docs, the size of the universe
    opRes,           \* what the last operation returned
    opPc,            \* which operation returned it
    \* ---- boolindex.py: main
    input_dir,       \* the files under --input_dir: records [src, fp, text]
    docs,            \* list_docs' result: records [src, fp, text], by path
    use_stemming, min_token_len, max_docs,     \* the command line
    term_doc,        \* tmp/term_doc.tsv
    sorted_file,     \* tmp/term_doc_sorted.tsv
    docs_tsv,        \* index/docs.tsv
    dict_tsv,        \* index/dict.tsv
    postings_bin,    \* index/postings.bin
    asm,             \* cur_term, last_doc, postings, offset of the assembler
    di,              \* documents enumerated by the extractor so far
    li,              \* sorted lines consumed by the assembler so far
    used, total_pairs,   \* the extractor's counters
    bpc,             \* where main of boolindex.py stands
    \* ---- boolsearch.py: main
    term_dict, loaded_docs, n_docs,    \* the index as loaded
    topk,            \* --topk
    interactive,     \* FALSE when --query gave the one query
    failed,          \* an ERROR line has been printed by the loop
    query,           \* the query string being searched
    toks, ti,        \* q_tokenize's tokens, and how many to_rpn has consumed
    rpn,             \* to_rpn's out, stack and error
    ri,              \* entries of the RPN sequence eval_rpn has consumed
    ev,              \* eval_rpn's stack, reads and error
    found,           \* what search returned: <<ids, total>>, if it returned
    qpc,             \* where main of boolsearch.py stands
    calls,           \* the locals of each concurrent call of search
    \* ---- web.py: the app and its one handler
    web_term_dict, web_docs, web_n_docs,   \* the index as make_app loaded it
    web_q,           \* the q of the last request
    web_hits,        \* the hit list computed for it
    wpc,             \* "serving", or "failed" after an EOFError
    \* ---- robot.py: the SQLiteStore's frontier and the run loop
    frontier,        \* the frontier table: url -> the rest of its row
    frontier_size,   \* the store's cached row count
    max_frontier, recrawl_after, max_pages,    \* cfg["logic"]
    clock,           \* int(time.time())
    item,            \* what the last pop_next_url returned
    ts,              \* the time read after the last fetch_url that returned
    outcome,         \* how the last loop iteration ended
    processed,       \* pages processed by the run loop
    fetched,         \* the calls of fetch_url so far: [url, at, next_fetch_at]
    rpc,             \* where run stands
    \* ---- download_marinelink.py: one call of get_html
    retries,         \* the argument
    gi,              \* the loop variable i
    last_err,        \* the local last_err
    tries,           \* the outcome of each session.get so far
    gres,            \* what the call returned or raised, once it has
    gpc              \* where the call stands

opsVars == <<opA, opB, opN, opRes, opPc>>

cfgVars == <<input_dir, docs, use_stemming, min_token_len, max_docs>>

indexVars == <<docs_tsv, dict_tsv, postings_bin>>

buildVars == <<term_doc, sorted_file, asm, di, li, used, total_pairs, bpc>>

loadedVars == <<term_dict, loaded_docs, n_docs, topk, interactive, failed>>

searchVars == <<query, toks, ti, rpn, ri, ev, found, qpc, calls>>

webVars == <<web_term_dict, web_docs, web_n_docs, web_q, web_hits, wpc>>

robotVars ==
    <<frontier, frontier_size, max_frontier, recrawl_after, max_pages, clock,
      item, ts, outcome, processed, fetched, rpc>>

dlVars == <<retries, gi, last_err, tries, gres, gpc>>

labVars == <<robotVars, dlVars>>

vars ==
    <<opsVars, cfgVars, indexVars, buildVars, loadedVars, searchVars, webVars,
      labVars>>

\* ------------------------------------------------------------------------
\* Bounds
\* ------------------------------------------------------------------------

\* Document ids of the set-algebra inputs range over 0 .. MaxId-1.
MaxId == 4

\* A build's corpus has NumDocs documents, of which at most MaxTexts hold
\* any text.
NumDocs == 11
MaxTexts == 2

\* A queried index is built from QueryDocs documents, and a query has at
\* most MaxQueryLen words.
QueryDocs == 2
MaxQueryLen == 3

\* The documents of the index the query shapes run against.
ShapeDocs == 2

\* The most documents that hold one term of a pair file given to the
\* assembler.
MaxPostings == 3

\* The most files of the two sources in a small input directory.
MaxFiles == 3

\* ------------------------------------------------------------------------
\* Sequences
\* ------------------------------------------------------------------------

Range(s) == {s[k] : k \in 1..Len(s)}

\* Python's a[i:], with i a 0-based index.
Drop(a, i) == SubSeq(a, i + 1, Len(a))

IsStrictlyAscending(s) == \A k \in 1..(Len(s) - 1) : s[k] < s[k + 1]

\* The ascending list of the ids of S, drawn from 0 .. n-1.
RECURSIVE AscendingFrom(_, _, _)
AscendingFrom(S, d, n) ==
    IF d >= n THEN <<>>
    ELSE IF d \in S THEN <<d>> \o AscendingFrom(S, d + 1, n)
    ELSE AscendingFrom(S, d + 1, n)

AscendingLists(n) == {AscendingFrom(S, 0, n) : S \in SUBSET (0..(n - 1))}

\* ------------------------------------------------------------------------
\* Strings.  A text, a line and a term are strings; a character is a string
\* of length 1.
\* ------------------------------------------------------------------------

CharAt(s, i) == SubSeq(s, i, i)

\* Python's s[i:j], with 0-based i and j.
Slice(s, i, j) == SubSeq(s, i + 1, j)

Chars(s) == {CharAt(s, k) : k \in 1..Len(s)}

UpperCase == "ABCDEFGHIJKLMNOPQRSTUVWXYZ"
LowerCase == "abcdefghijklmnopqrstuvwxyz"
Digits == "0123456789"

\* The characters of the model in ascending byte order.
ByteOrder == (("\t '()-./" \o Digits) \o UpperCase) \o ("_" \o LowerCase)

IndexIn(c, s) == CHOOSE k \in 1..Len(s) : CharAt(s, k) = c

Ord(c) == IndexIn(c, ByteOrder)

IsAlnum(c) == c \in Chars(Digits) \cup Chars(UpperCase) \cup Chars(LowerCase)

LowerChar(c) ==
    IF c \in Chars(UpperCase) THEN CharAt(LowerCase, IndexIn(c, UpperCase)) ELSE c

UpperChar(c) ==
    IF c \in Chars(LowerCase) THEN CharAt(UpperCase, IndexIn(c, LowerCase)) ELSE c

RECURSIVE Lower(_)
Lower(s) == IF s = "" THEN "" ELSE LowerChar(Head(s)) \o Lower(Tail(s))

RECURSIVE Upper(_)
Upper(s) == IF s = "" THEN "" ELSE UpperChar(Head(s)) \o Upper(Tail(s))

EndsWith(s, suf) ==
    Len(suf) <= Len(s) /\ SubSeq(s, Len(s) - Len(suf) + 1, Len(s)) = suf

\* Python's s[:-n].
DropLast(s, n) == SubSeq(s, 1, Len(s) - n)

\* Byte-wise comparison of two strings, a proper prefix first.
RECURSIVE StrLess(_, _)
StrLess(s, t) ==
    IF t = "" THEN FALSE
    ELSE IF s = "" THEN TRUE
    ELSE IF Head(s) = Head(t) THEN StrLess(Tail(s), Tail(t))
    ELSE Ord(Head(s)) < Ord(Head(t))

\* Python's f"{n}" of an int n >= 0.
RECURSIVE Str(_)
Str(n) ==
    IF n < 10 THEN CharAt(Digits, n + 1)
    ELSE Str(n \div 10) \o CharAt(Digits, (n % 10) + 1)

\* Python's int(s) of a string of decimal digits.
RECURSIVE Int_(_, _)
Int_(s, acc) ==
    IF s = "" THEN acc
    ELSE Int_(Tail(s), 10 * acc + (IndexIn(Head(s), Digits) - 1))

ParseInt(s) == Int_(s, 0)

\* ------------------------------------------------------------------------
\* tokenizer.py
\* ------------------------------------------------------------------------

\* The end (0-based, exclusive) of the longest run of [A-Za-z0-9] from p.
RECURSIVE AlnumRun(_, _)
AlnumRun(s, p) ==
    IF p < Len(s) /\ IsAlnum(CharAt(s, p + 1)) THEN AlnumRun(s, p + 1) ELSE p

\* The end of (?:['-][a-z0-9]+)* from p: each repetition is one ' or -
\* and a non-empty run.
RECURSIVE JoinedRuns(_, _)
JoinedRuns(s, p) ==
    IF /\ p + 1 < Len(s)
       /\ CharAt(s, p + 1) \in {"'", "-"}
       /\ IsAlnum(CharAt(s, p + 2))
    THEN JoinedRuns(s, AlnumRun(s, p + 1))
    ELSE p

\* The end of the match of [a-z0-9]+(?:['-][a-z0-9]+)* at p, or p when
\* there is none.
WordEnd(s, p) ==
    IF p < Len(s) /\ IsAlnum(CharAt(s, p + 1))
    THEN JoinedRuns(s, AlnumRun(s, p))
    ELSE p

\* TOKEN_RE.finditer(text), each match lowered.
RECURSIVE tokenize_from(_, _)
tokenize_from(text, p) ==
    IF p >= Len(text) THEN <<>>
    ELSE LET e == WordEnd(text, p)
         IN IF e > p
            THEN <<Lower(Slice(text, p, e))>> \o tokenize_from(text, e)
            ELSE tokenize_from(text, p + 1)

tokenize(text) == tokenize_from(text, 0)

\* Python's t.strip("-'").
RECURSIVE StripLeft(_)
StripLeft(t) ==
    IF t # "" /\ Head(t) \in {"-", "'"} THEN StripLeft(Tail(t)) ELSE t

RECURSIVE StripRight(_)
StripRight(t) ==
    IF t # "" /\ CharAt(t, Len(t)) \in {"-", "'"}
    THEN StripRight(DropLast(t, 1))
    ELSE t

Strip(t) == StripRight(StripLeft(t))

\* The (suffix, replacement) rules of simple_stem_en, in the order tried.
StemRules == <<
    <<"ization", "ize">>, <<"ational", "ate">>, <<"fulness", "ful">>,
    <<"ousness", "ous">>, <<"iveness", "ive">>, <<"tional", "tion">>,
    <<"biliti", "ble">>, <<"lessly", "less">>, <<"ments", "ment">>,
    <<"ations", "ation">>, <<"ation", "ate">>, <<"encies", "ency">>,
    <<"ness", "">>, <<"ment", "">>, <<"tion", "">>, <<"sion", "">>,
    <<"able", "">>, <<"ible", "">>, <<"ship", "">>, <<"hood", "">>,
    <<"ward", "">>, <<"wise", "">>, <<"ing", "">>, <<"ed", "">>,
    <<"ly", "">>, <<"es", "e">>, <<"s", "">> >>

\* The first rule from k on that applies to t rewrites it.
RECURSIVE ApplyRules(_, _)
ApplyRules(t, k) ==
    IF k > Len(StemRules) THEN t
    ELSE LET suf == StemRules[k][1]
             rep == StemRules[k][2]
         IN IF EndsWith(t, suf) /\ Len(t) - Len(suf) >= 3
            THEN DropLast(t, Len(suf)) \o rep
            ELSE ApplyRules(t, k + 1)

simple_stem_en(tok) ==
    IF Len(tok) <= 3 THEN tok
    ELSE LET t1 == Strip(tok)
             t2 == IF EndsWith(t1, "'s") /\ Len(t1) - 2 >= 3
                   THEN DropLast(t1, 2)
                   ELSE t1
         IN ApplyRules(t2, 1)

\* ------------------------------------------------------------------------
\* lab7/boolindex.py.  A text file is the sequence of its lines, each
\* without its newline; postings.bin is a sequence of bytes.
\* ------------------------------------------------------------------------

\* Python's None is <<>>, any other value x is <<x>>.
None == <<>>
Some(x) == <<x>>

\* Python's s.split("\t").
RECURSIVE SplitTab(_)
SplitTab(s) ==
    IF "\t" \in Chars(s)
    THEN LET k == IndexIn("\t", s)
         IN <<SubSeq(s, 1, k - 1)>> \o SplitTab(SubSeq(s, k + 1, Len(s)))
    ELSE <<s>>

\* Python's s.split("\t", 2): at most two splits.
SplitTab2(s) ==
    LET parts == SplitTab(s)
    IN IF Len(parts) <= 3 THEN parts
       ELSE LET k1 == Len(parts[1]) + 1
                k2 == k1 + Len(parts[2]) + 1
            IN <<parts[1], parts[2], SubSeq(s, k2 + 1, Len(s))>>

\* lines 39-45 of build_term_doc_file: the set of terms of one text.
DocTerms(text, stem, min_len) ==
    LET toks0 == tokenize(text)
        toks1 == IF min_len > 1
                 THEN SelectSeq(toks0, LAMBDA t : Len(t) >= min_len)
                 ELSE toks0
        toks2 == IF stem
                 THEN [k \in 1..Len(toks1) |-> simple_stem_en(toks1[k])]
                 ELSE toks1
    IN Range(toks2)

\* f"{term}\t{doc_id}", the line written for one pair.
PairLine(term, doc_id) == (term \o "\t") \o Str(doc_id)

\* The orders in which a set may be iterated.
Orders(S) ==
    {f \in [1..Cardinality(S) -> S] :
        \A i, j \in 1..Cardinality(S) : i # j => f[i] # f[j]}

\* sort(1) in the C locale: the lines in ascending byte order.
RECURSIVE InsertLine(_, _)
InsertLine(sorted, x) ==
    IF sorted = <<>> THEN <<x>>
    ELSE IF StrLess(x, Head(sorted)) THEN <<x>> \o sorted
    ELSE <<Head(sorted)>> \o InsertLine(Tail(sorted), x)

\* A slip in the sort stage: the pair file is passed on as it is.
SortLines_as_written(lines) == lines

RECURSIVE SortLines(_)
SortLines(lines) ==
    IF lines = <<>> THEN <<>>
    ELSE InsertLine(SortLines(Tail(lines)), Head(lines))

\* Python's list.sort() of a list of ints.
RECURSIVE InsertInt(_, _)
InsertInt(sorted, x) ==
    IF sorted = <<>> THEN <<x>>
    ELSE IF x < Head(sorted) THEN <<x>> \o sorted
    ELSE <<Head(sorted)>> \o InsertInt(Tail(sorted), x)

RECURSIVE SortInts(_)
SortInts(list) ==
    IF list = <<>> THEN <<>>
    ELSE InsertInt(SortInts(Tail(list)), Head(list))

\* A slip in the format: "<H" for "<I", two bytes of the id, here padded
\* to the width the reader expects.
Pack_two_bytes(d) == <<d % 256, (d \div 256) % 256, 0, 0>>

\* struct.pack("<I", d): four bytes, the least significant first.
Pack(d) ==
    <<d % 256, (d \div 256) % 256, (d \div 65536) % 256, (d \div 16777216) % 256>>

\* struct.unpack("<I", b)[0] of four bytes.
Unpack(b) == b[1] + 256 * b[2] + 65536 * b[3] + 16777216 * b[4]

RECURSIVE PackAll(_)
PackAll(list) ==
    IF list = <<>> THEN <<>> ELSE Pack(Head(list)) \o PackAll(Tail(list))

\* The state of build_inverted_from_sorted: its fold state and the two
\* files it writes.
AssemblerStart ==
    [cur_term |-> None, last_doc |-> None, postings |-> <<>>, offset |-> 0,
     post |-> <<>>, dic |-> <<>>]

\* f"{term}\t{len(postings_list)}\t{offset}\t{nbytes}"
DictLine(term, df, offset, nbytes) ==
    (((((term \o "\t") \o Str(df)) \o "\t") \o Str(offset)) \o "\t") \o Str(nbytes)

\* A slip in flush: offset is not advanced.
flush_offset_stays(term, postings_list, A) ==
    IF term = None THEN A
    ELSE LET sorted_list == SortInts(postings_list)
             data == PackAll(sorted_list)
         IN [A EXCEPT !.post = @ \o data,
                      !.dic = Append(@, DictLine(term[1], Len(sorted_list),
                                                 A.offset, Len(data)))]

\* A slip in flush: the list is written in the order the lines came.
flush_unsorted(term, postings_list, A) ==
    IF term = None THEN A
    ELSE LET data == PackAll(postings_list)
         IN [A EXCEPT !.post = @ \o data,
                      !.dic = Append(@, DictLine(term[1], Len(postings_list),
                                                 A.offset, Len(data))),
                      !.offset = @ + Len(data)]

flush(term, postings_list, A) ==
    IF term = None THEN A
    ELSE LET sorted_list == SortInts(postings_list)
             data == PackAll(sorted_list)
         IN [A EXCEPT !.post = @ \o data,
                      !.dic = Append(@, DictLine(term[1], Len(sorted_list),
                                                 A.offset, Len(data))),
                      !.offset = @ + Len(data)]

\* One iteration of "for line in inp" (lines 86-101).
assemble_line(A, line) ==
    IF line = "" THEN A
    ELSE LET parts == SplitTab(line)
             term == parts[1]
             doc_id == ParseInt(parts[2])
             B == IF A.cur_term # Some(term)
                  THEN [flush(A.cur_term, A.postings, A)
                           EXCEPT !.cur_term = Some(term),
                                  !.postings = <<>>,
                                  !.last_doc = None]
                  ELSE A
         IN IF B.last_doc # Some(doc_id)
            THEN [B EXCEPT !.postings = Append(@, doc_id),
                           !.last_doc = Some(doc_id)]
            ELSE B

\* The flush after the loop (line 103).
assemble_end(A) == flush(A.cur_term, A.postings, A)

\* f"{doc_id}\t{src}\t{fp}"
DocsLine(doc_id, src, fp) ==
    (((Str(doc_id) \o "\t") \o src) \o "\t") \o fp

\* The documents a build uses: all of them, or the first cap.
UsedDocs(ds, cap) ==
    IF cap # 0 /\ cap < Len(ds) THEN cap ELSE Len(ds)

\* docs.sort(key=lambda x: x[1]): a stable sort by path.
RECURSIVE InsertDoc(_, _)
InsertDoc(sorted, x) ==
    IF sorted = <<>> THEN <<x>>
    ELSE IF StrLess(x.fp, Head(sorted).fp) THEN <<x>> \o sorted
    ELSE <<Head(sorted)>> \o InsertDoc(Tail(sorted), x)

RECURSIVE SortDocs(_)
SortDocs(list) ==
    IF list = <<>> THEN <<>>
    ELSE InsertDoc(SortDocs(SubSeq(list, 1, Len(list) - 1)), list[Len(list)])

\* A slip in list_docs: the sort is left out.
list_docs_unsorted(wikipedia, marinelink) == wikipedia \o marinelink

\* list_docs, given what glob returned for the two sources.
list_docs(wikipedia, marinelink) == SortDocs(wikipedia \o marinelink)

\* A slip in write_docs_table: enumerate(docs, 1).
write_docs_table_from_one(ds, cap) ==
    [k \in 1..UsedDocs(ds, cap) |-> DocsLine(k, ds[k].src, ds[k].fp)]

write_docs_table(ds, cap) ==
    [k \in 1..UsedDocs(ds, cap) |->
        DocsLine(k - 1, ds[k].src, ds[k].fp)]

\* ------------------------------------------------------------------------
\* lab8/boolsearch.py: op_and, op_or, op_not.  Python indexes from 0, so
\* a[i] of the source is a[i + 1] here.
\* ------------------------------------------------------------------------

RECURSIVE op_and_loop(_, _, _, _, _)
op_and_loop(a, b, i, j, out) ==
    IF i < Len(a) /\ j < Len(b)
    THEN IF a[i + 1] = b[j + 1]
         THEN op_and_loop(a, b, i + 1, j + 1, Append(out, a[i + 1]))
         ELSE IF a[i + 1] < b[j + 1]
         THEN op_and_loop(a, b, i + 1, j, out)
         ELSE op_and_loop(a, b, i, j + 1, out)
    ELSE out

\* A slip in the merge: the smaller head is kept, so ids of one list only
\* reach the result.
op_and_keeps_smaller(a, b) ==
    LET RECURSIVE loop(_, _, _)
        loop(i, j, out) ==
            IF i < Len(a) /\ j < Len(b)
            THEN IF a[i + 1] = b[j + 1]
                 THEN loop(i + 1, j + 1, Append(out, a[i + 1]))
                 ELSE IF a[i + 1] < b[j + 1]
                 THEN loop(i + 1, j, Append(out, a[i + 1]))
                 ELSE loop(i, j + 1, out)
            ELSE out
    IN loop(0, 0, <<>>)

op_and(a, b) == op_and_loop(a, b, 0, 0, <<>>)

RECURSIVE op_or_loop(_, _, _, _, _)
op_or_loop(a, b, i, j, out) ==
    IF i < Len(a) /\ j < Len(b)
    THEN IF a[i + 1] = b[j + 1]
         THEN op_or_loop(a, b, i + 1, j + 1, Append(out, a[i + 1]))
         ELSE IF a[i + 1] < b[j + 1]
         THEN op_or_loop(a, b, i + 1, j, Append(out, a[i + 1]))
         ELSE op_or_loop(a, b, i, j + 1, Append(out, b[j + 1]))
    ELSE (out \o Drop(a, i)) \o Drop(b, j)

\* A slip in the merge: the equal heads are both appended.
op_or_keeps_both(a, b) ==
    LET RECURSIVE loop(_, _, _)
        loop(i, j, out) ==
            IF i < Len(a) /\ j < Len(b)
            THEN IF a[i + 1] <= b[j + 1]
                 THEN loop(i + 1, j, Append(out, a[i + 1]))
                 ELSE loop(i, j + 1, Append(out, b[j + 1]))
            ELSE (out \o Drop(a, i)) \o Drop(b, j)
    IN loop(0, 0, <<>>)

op_or(a, b) == op_or_loop(a, b, 0, 0, <<>>)

RECURSIVE op_not_loop(_, _, _, _, _)
op_not_loop(a, n, d, i, out) ==
    IF d < n
    THEN IF i < Len(a) /\ a[i + 1] = d
         THEN op_not_loop(a, n, d + 1, i + 1, out)
         ELSE op_not_loop(a, n, d + 1, i, Append(out, d))
    ELSE out

\* A slip in the range: the scan starts at id 1.
op_not_from_one(a, n) == op_not_loop(a, n, 1, 0, <<>>)

op_not(a, n) == op_not_loop(a, n, 0, 0, <<>>)

\* ------------------------------------------------------------------------
\* lab8/boolsearch.py: the index as loaded, the lexer, to_rpn and eval_rpn.
\* ------------------------------------------------------------------------

PREC == [NOT |-> 3, AND |-> 2, OR |-> 1]

\* No operator binds to the right.
RIGHT_ASSOC_none == {}

RIGHT_ASSOC == {"NOT"}

\* A precedence table that puts OR above AND.
PREC_or_first == [NOT |-> 3, AND |-> 1, OR |-> 2]

\* A precedence table that puts NOT below AND and OR.
PREC_not_last == [NOT |-> 0, AND |-> 2, OR |-> 1]

\* The dict built by load_dict: a later row of a term replaces an earlier.
load_dict(rows) ==
    LET row(k) == SplitTab(rows[k])
        terms == {row(k)[1] : k \in 1..Len(rows)}
        last(t) == CHOOSE k \in 1..Len(rows) :
                      /\ row(k)[1] = t
                      /\ \A m \in (k + 1)..Len(rows) : row(m)[1] # t
    IN [t \in terms |->
           [df |-> ParseInt(row(last(t))[2]),
            off |-> ParseInt(row(last(t))[3]),
            nb |-> ParseInt(row(last(t))[4])]]

load_docs(rows) ==
    [k \in 1..Len(rows) |->
        [src |-> SplitTab2(rows[k])[2], path |-> SplitTab2(rows[k])[3]]]

\* f.seek(off); f.read(nb): the bytes that are there, at most nb.
ReadAt(file, off, nb) ==
    SubSeq(file, off + 1, IF off + nb < Len(file) THEN off + nb ELSE Len(file))

\* The bytes read_postings reads for a term of the dictionary.
PostingsData(term, td, bin) ==
    ReadAt(bin, td[term].off, td[term].nb)

\* struct.unpack raises on a last chunk of fewer than four bytes.
read_postings_raises(term, td, bin) ==
    /\ term \in DOMAIN td
    /\ Len(PostingsData(term, td, bin)) % 4 # 0

\* A slip in read_postings: an unknown term reads the whole file.
read_postings_whole_file(term, td, bin) ==
    LET data == IF term \in DOMAIN td
                THEN PostingsData(term, td, bin)
                ELSE SubSeq(bin, 1, 4 * (Len(bin) \div 4))
    IN [k \in 1..(Len(data) \div 4) |-> Unpack(SubSeq(data, 4 * k - 3, 4 * k))]

read_postings(term, td, bin) ==
    IF term \notin DOMAIN td THEN <<>>
    ELSE LET data == PostingsData(term, td, bin)
         IN [k \in 1..(Len(data) \div 4) |->
                Unpack(SubSeq(data, 4 * k - 3, 4 * k))]

\* Upper-cased text of the n characters of q from p matches kw.
KeywordAt(q, p, kw) ==
    p + Len(kw) <= Len(q) /\ Upper(Slice(q, p, p + Len(kw))) = kw

\* The end of the match of Q_TOKEN_RE at p (its alternatives in order), or
\* p when there is none.
QTokenEnd(q, p) ==
    IF CharAt(q, p + 1) \in {"(", ")"} THEN p + 1
    ELSE IF KeywordAt(q, p, "AND") THEN p + 3
    ELSE IF KeywordAt(q, p, "OR") THEN p + 2
    ELSE IF KeywordAt(q, p, "NOT") THEN p + 3
    ELSE WordEnd(q, p)

\* Q_TOKEN_RE.finditer(q)
RECURSIVE QMatches(_, _)
QMatches(q, p) ==
    IF p >= Len(q) THEN <<>>
    ELSE LET e == QTokenEnd(q, p)
         IN IF e > p
            THEN <<Slice(q, p, e)>> \o QMatches(q, e)
            ELSE QMatches(q, p + 1)

Operators == {"AND", "OR", "NOT", "(", ")"}

\* A slip in q_tokenize: the terms are lowered but not stemmed.
q_tokenize_unstemmed(q) ==
    LET ms == QMatches(q, 0)
    IN [k \in 1..Len(ms) |->
           IF Upper(ms[k]) \in Operators THEN Upper(ms[k]) ELSE Lower(ms[k])]

q_tokenize(q) ==
    LET ms == QMatches(q, 0)
    IN [k \in 1..Len(ms) |->
           IF Upper(ms[k]) \in Operators
           THEN Upper(ms[k])
           ELSE simple_stem_en(Lower(ms[k]))]

\* The state of to_rpn: its output list, its operator stack (the top
\* last), and the error it raised, if any.
RpnStart == [out |-> <<>>, stack |-> <<>>, err |-> None]

Top(stack) == stack[Len(stack)]
Pop(stack) == SubSeq(stack, 1, Len(stack) - 1)

\* "while stack and stack[-1] != '(': out.append(stack.pop())"
RECURSIVE PopToParen(_)
PopToParen(R) ==
    IF R.stack # <<>> /\ Top(R.stack) # "("
    THEN PopToParen([R EXCEPT !.out = Append(@, Top(R.stack)),
                              !.stack = Pop(@)])
    ELSE R

\* The condition of line 115 under a precedence table that puts OR above AND.
PopsBefore_or_first(top, t) ==
    \/ PREC_or_first[top] > PREC_or_first[t]
    \/ PREC_or_first[top] = PREC_or_first[t] /\ t \notin RIGHT_ASSOC

\* The same under a precedence table that puts NOT below AND and OR.
PopsBefore_not_last(top, t) ==
    \/ PREC_not_last[top] > PREC_not_last[t]
    \/ PREC_not_last[top] = PREC_not_last[t] /\ t \notin RIGHT_ASSOC

\* The condition under which the operator on top is output before t is
\* pushed (line 115).
PopsBefore(top, t) ==
    \/ PREC[top] > PREC[t]
    \/ PREC[top] = PREC[t] /\ t \notin RIGHT_ASSOC

\* "while stack and stack[-1] in PREC: ..." for the operator t.
RECURSIVE PopOperators(_, _)
PopOperators(R, t) ==
    IF /\ R.stack # <<>>
       /\ Top(R.stack) \in DOMAIN PREC
       /\ PopsBefore(Top(R.stack), t)
    THEN PopOperators([R EXCEPT !.out = Append(@, Top(R.stack)),
                                !.stack = Pop(@)], t)
    ELSE R

\* One iteration of "for t in tokens" of to_rpn (lines 103-121).
to_rpn_token(R, t) ==
    IF t = "(" THEN [R EXCEPT !.stack = Append(@, t)]
    ELSE IF t = ")"
    THEN LET P == PopToParen(R)
         IN IF P.stack = <<>>
            THEN [P EXCEPT !.err = Some("Mismatched parentheses")]
            ELSE [P EXCEPT !.stack = Pop(@)]
    ELSE IF t \in DOMAIN PREC
    THEN [PopOperators(R, t) EXCEPT !.stack = Append(@, t)]
    ELSE [R EXCEPT !.out = Append(@, t)]

\* "while stack: ..." after the loop of to_rpn (lines 122-125).
RECURSIVE to_rpn_end(_)
to_rpn_end(R) ==
    IF R.stack = <<>> THEN R
    ELSE IF Top(R.stack) \in {"(", ")"}
    THEN [R EXCEPT !.err = Some("Mismatched parentheses")]
    ELSE to_rpn_end([R EXCEPT !.out = Append(@, Top(R.stack)),
                              !.stack = Pop(@)])

\* The state of eval_rpn: its stack of lists (the top last), the number of
\* read_postings calls it made, and the error it raised, if any.
EvalStart == [st |-> <<>>, reads |-> 0, err |-> None]

\* A slip in eval_rpn: AND and OR with one list on the stack reuse it.
eval_rpn_token_lenient(E, t, td, bin, n) ==
    LET depth == Len(E.st)
    IN IF t = "NOT"
       THEN IF depth = 0 THEN [E EXCEPT !.err = Some("NOT missing operand")]
            ELSE [E EXCEPT !.st = Append(Pop(@), op_not(E.st[depth], n))]
       ELSE IF t \in {"AND", "OR"}
       THEN IF depth = 0 THEN [E EXCEPT !.err = Some(t \o " missing operand")]
            ELSE IF depth = 1 THEN E
            ELSE [E EXCEPT !.st =
                     Append(Pop(Pop(@)),
                            IF t = "AND" THEN op_and(E.st[depth - 1], E.st[depth])
                            ELSE op_or(E.st[depth - 1], E.st[depth]))]
       ELSE [E EXCEPT !.st = Append(@, read_postings(t, td, bin)),
                      !.reads = @ + 1]

\* One iteration of "for t in seq" of eval_rpn (lines 131-148).
eval_rpn_token(E, t, td, bin, n) ==
    LET depth == Len(E.st)
    IN IF t = "NOT"
       THEN IF depth = 0 THEN [E EXCEPT !.err = Some("NOT missing operand")]
            ELSE [E EXCEPT !.st = Append(Pop(@), op_not(E.st[depth], n))]
       ELSE IF t = "AND"
       THEN IF depth < 2 THEN [E EXCEPT !.err = Some("AND missing operand")]
            ELSE [E EXCEPT !.st =
                     Append(Pop(Pop(@)), op_and(E.st[depth - 1], E.st[depth]))]
       ELSE IF t = "OR"
       THEN IF depth < 2 THEN [E EXCEPT !.err = Some("OR missing operand")]
            ELSE [E EXCEPT !.st =
                     Append(Pop(Pop(@)), op_or(E.st[depth - 1], E.st[depth]))]
       ELSE IF read_postings_raises(t, td, bin)
       THEN [E EXCEPT !.reads = @ + 1, !.err = Some("struct.error")]
       ELSE [E EXCEPT !.st = Append(@, read_postings(t, td, bin)),
                      !.reads = @ + 1]

\* A slip after the loop: the top of the stack is returned whatever is
\* left under it.
eval_rpn_end_top(E) ==
    IF E.st = <<>> THEN [E EXCEPT !.err = Some("Bad query")] ELSE E

\* "if len(st) != 1: raise" after the loop of eval_rpn (lines 149-151).
eval_rpn_end(E) ==
    IF Len(E.st) # 1 THEN [E EXCEPT !.err = Some("Bad query")] ELSE E

\* ------------------------------------------------------------------------
\* lab8/web.py: intersect_sorted, union_sorted, complement_sorted.
\* ------------------------------------------------------------------------

RECURSIVE intersect_sorted_loop(_, _, _, _, _)
intersect_sorted_loop(a, b, i, j, r) ==
    IF i < Len(a) /\ j < Len(b)
    THEN IF a[i + 1] = b[j + 1]
         THEN intersect_sorted_loop(a, b, i + 1, j + 1, Append(r, a[i + 1]))
         ELSE IF a[i + 1] < b[j + 1]
         THEN intersect_sorted_loop(a, b, i + 1, j, r)
         ELSE intersect_sorted_loop(a, b, i, j + 1, r)
    ELSE r

intersect_sorted(a, b) == intersect_sorted_loop(a, b, 0, 0, <<>>)

RECURSIVE union_sorted_loop(_, _, _, _, _)
union_sorted_loop(a, b, i, j, r) ==
    IF i < Len(a) \/ j < Len(b)
    THEN IF j >= Len(b) \/ (i < Len(a) /\ a[i + 1] < b[j + 1])
         THEN union_sorted_loop(a, b, i + 1, j, Append(r, a[i + 1]))
         ELSE IF i >= Len(a) \/ (j < Len(b) /\ b[j + 1] < a[i + 1])
         THEN union_sorted_loop(a, b, i, j + 1, Append(r, b[j + 1]))
         ELSE union_sorted_loop(a, b, i + 1, j + 1, Append(r, a[i + 1]))
    ELSE r

union_sorted(a, b) == union_sorted_loop(a, b, 0, 0, <<>>)

RECURSIVE complement_sorted_loop(_, _, _, _, _)
complement_sorted_loop(a, n, doc_id, j, r) ==
    IF doc_id < n
    THEN IF j < Len(a) /\ a[j + 1] = doc_id
         THEN complement_sorted_loop(a, n, doc_id + 1, j + 1, r)
         ELSE complement_sorted_loop(a, n, doc_id + 1, j, Append(r, doc_id))
    ELSE r

complement_sorted(a, n) == complement_sorted_loop(a, n, 0, 0, <<>>)

\* ------------------------------------------------------------------------
\* lab8/web.py: its own stemmer, index loader, lexer, to_rpn and eval_rpn.
\* ------------------------------------------------------------------------

stem_word(w0) ==
    IF Len(w0) < 4 THEN w0
    ELSE LET w1 == IF EndsWith(w0, "'s") /\ Len(w0) > 3 THEN DropLast(w0, 2) ELSE w0
         IN IF EndsWith(w1, "sses") /\ Len(w1) > 6 THEN DropLast(w1, 2)
            ELSE IF EndsWith(w1, "ies") /\ Len(w1) > 5 THEN DropLast(w1, 3) \o "y"
            ELSE LET w2 == IF /\ EndsWith(w1, "s")
                              /\ Len(w1) > 4
                              /\ ~EndsWith(w1, "ss")
                           THEN DropLast(w1, 1)
                           ELSE w1
                 IN IF EndsWith(w2, "ing") /\ Len(w2) > 6 THEN DropLast(w2, 3)
                    ELSE IF EndsWith(w2, "ed") /\ Len(w2) > 5 THEN DropLast(w2, 2)
                    ELSE IF EndsWith(w2, "ly") /\ Len(w2) > 6 THEN DropLast(w2, 2)
                    ELSE IF EndsWith(w2, "ment") /\ Len(w2) > 8 THEN DropLast(w2, 4)
                    ELSE w2

\* The dict built by web.py's load_dict: only rows of exactly three fields
\* are taken, as (term, off, df).
web_load_dict(lines) ==
    LET row(k) == SplitTab(lines[k])
        rows == {k \in 1..Len(lines) : Len(row(k)) = 3}
        terms == {row(k)[1] : k \in rows}
        last(t) == CHOOSE k \in rows :
                      /\ row(k)[1] = t
                      /\ \A m \in rows : m > k => row(m)[1] # t
    IN [t \in terms |->
           [off |-> ParseInt(row(last(t))[2]), df |-> ParseInt(row(last(t))[3])]]

\* web.py's load_docs: rows of fewer than three fields are skipped.
web_load_docs(lines) ==
    LET rows == SelectSeq(lines, LAMBDA line : Len(SplitTab(line)) >= 3)
    IN [k \in 1..Len(rows) |->
           [src |-> SplitTab(rows[k])[2], path |-> SplitTab(rows[k])[3]]]

\* read_varint from byte position p (0-based) of the file: the value and the
\* position after it, or eof when the file ends inside the value.
RECURSIVE read_varint(_, _, _, _)
read_varint(file, p, v, weight) ==
    IF p >= Len(file) THEN [eof |-> TRUE, v |-> v, p |-> p]
    ELSE LET b == file[p + 1]
             v2 == v + (b % 128) * weight
         IN IF b < 128 THEN [eof |-> FALSE, v |-> v2, p |-> p + 1]
            ELSE read_varint(file, p + 1, v2, weight * 128)

\* load_postings: df gaps from offset off, summed; eof as read_varint's.
RECURSIVE load_postings_loop(_, _, _, _, _, _)
load_postings_loop(file, p, df, i, cur, res) ==
    IF i >= df THEN [eof |-> FALSE, res |-> res]
    ELSE LET g == read_varint(file, p, 0, 1)
         IN IF g.eof THEN [eof |-> TRUE, res |-> res]
            ELSE LET c == IF i = 0 THEN g.v ELSE cur + g.v
                 IN load_postings_loop(file, g.p, df, i + 1, c, Append(res, c))

load_postings(file, off, df) == load_postings_loop(file, off, df, 0, 0, <<>>)

TT_TERM == 0
TT_AND == 1
TT_OR == 2
TT_NOT == 3
TT_LP == 4
TT_RP == 5

\* The end of the match of [A-Za-z0-9][A-Za-z0-9'\-]* at p, or p.
RECURSIVE WebWordRun(_, _)
WebWordRun(q, p) ==
    IF p < Len(q) /\ (IsAlnum(CharAt(q, p + 1)) \/ CharAt(q, p + 1) \in {"'", "-"})
    THEN WebWordRun(q, p + 1)
    ELSE p

WebWordEnd(q, p) ==
    IF p < Len(q) /\ IsAlnum(CharAt(q, p + 1)) THEN WebWordRun(q, p + 1) ELSE p

IsSpace(c) == c \in {" ", "\t"}

\* The token, if any, of the word w.
WebWordToken(w) ==
    IF Upper(w) = "AND" THEN << <<TT_AND, "">> >>
    ELSE IF Upper(w) = "OR" THEN << <<TT_OR, "">> >>
    ELSE IF Upper(w) = "NOT" THEN << <<TT_NOT, "">> >>
    ELSE IF Len(stem_word(w)) >= 2 THEN << <<TT_TERM, stem_word(w)>> >>
    ELSE <<>>

RECURSIVE query_tokenize_from(_, _)
query_tokenize_from(q, i) ==
    IF i >= Len(q) THEN <<>>
    ELSE LET c == CharAt(q, i + 1)
         IN IF IsSpace(c) THEN query_tokenize_from(q, i + 1)
            ELSE IF c = "(" THEN << <<TT_LP, "">> >> \o query_tokenize_from(q, i + 1)
            ELSE IF c = ")" THEN << <<TT_RP, "">> >> \o query_tokenize_from(q, i + 1)
            ELSE IF WebWordEnd(q, i) > i
            THEN WebWordToken(Lower(Slice(q, i, WebWordEnd(q, i))))
                    \o query_tokenize_from(q, WebWordEnd(q, i))
            ELSE query_tokenize_from(q, i + 1)

query_tokenize(q) == query_tokenize_from(q, 0)

prec(tt) ==
    IF tt = TT_NOT THEN 3 ELSE IF tt = TT_AND THEN 2 ELSE IF tt = TT_OR THEN 1 ELSE 0

WebOps == {TT_AND, TT_OR, TT_NOT}

\* "while st and st[-1][0] in (...) and prec(st[-1][0]) >= prec(tt)"
RECURSIVE WebPopOperators(_, _)
WebPopOperators(R, tt) ==
    IF /\ R.st # <<>>
       /\ Top(R.st)[1] \in WebOps
       /\ prec(Top(R.st)[1]) >= prec(tt)
    THEN WebPopOperators([out |-> Append(R.out, Top(R.st)), st |-> Pop(R.st)], tt)
    ELSE R

\* "while st and st[-1][0] != TT_LP"
RECURSIVE WebPopToParen(_)
WebPopToParen(R) ==
    IF R.st # <<>> /\ Top(R.st)[1] # TT_LP
    THEN WebPopToParen([out |-> Append(R.out, Top(R.st)), st |-> Pop(R.st)])
    ELSE R

web_to_rpn_token(R, tok) ==
    IF tok[1] = TT_TERM THEN [R EXCEPT !.out = Append(@, tok)]
    ELSE IF tok[1] \in WebOps
    THEN [WebPopOperators(R, tok[1]) EXCEPT !.st = Append(@, tok)]
    ELSE IF tok[1] = TT_LP THEN [R EXCEPT !.st = Append(@, tok)]
    ELSE LET P == WebPopToParen(R)
         IN IF P.st # <<>> /\ Top(P.st)[1] = TT_LP
            THEN [P EXCEPT !.st = Pop(@)]
            ELSE P

RECURSIVE web_to_rpn_loop(_, _)
web_to_rpn_loop(R, tokens) ==
    IF tokens = <<>> THEN R
    ELSE web_to_rpn_loop(web_to_rpn_token(R, Head(tokens)), Tail(tokens))

\* "while st: out.append(st.pop())"
RECURSIVE WebDrain(_)
WebDrain(R) ==
    IF R.st = <<>> THEN R.out
    ELSE WebDrain([out |-> Append(R.out, Top(R.st)), st |-> Pop(R.st)])

web_to_rpn(tokens) ==
    WebDrain(web_to_rpn_loop([out |-> <<>>, st |-> <<>>], tokens))

\* eval_rpn of web.py.  E.ret is the list returned early, if any; E.eof
\* is read_varint's EOFError.
RECURSIVE web_eval_rpn_loop(_, _, _, _, _)
web_eval_rpn_loop(E, seq, td, bin, n) ==
    IF seq = <<>> \/ E.ret # None \/ E.eof THEN E
    ELSE LET tt == Head(seq)[1]
             txt == Head(seq)[2]
             depth == Len(E.st)
             F == IF tt = TT_TERM
                  THEN IF txt \notin DOMAIN td
                       THEN [E EXCEPT !.st = Append(@, <<>>)]
                       ELSE LET r == load_postings(bin,
                                                   td[txt].off,
                                                   td[txt].df)
                            IN IF r.eof THEN [E EXCEPT !.eof = TRUE]
                               ELSE [E EXCEPT !.st = Append(@, r.res)]
                  ELSE IF tt = TT_NOT
                  THEN IF depth = 0 THEN [E EXCEPT !.ret = Some(<<>>)]
                       ELSE [E EXCEPT !.st =
                                Append(Pop(@), complement_sorted(E.st[depth], n))]
                  ELSE IF tt \in {TT_AND, TT_OR}
                  THEN IF depth < 2 THEN [E EXCEPT !.ret = Some(<<>>)]
                       ELSE [E EXCEPT !.st =
                                Append(Pop(Pop(@)),
                                       IF tt = TT_AND
                                       THEN intersect_sorted(E.st[depth - 1], E.st[depth])
                                       ELSE union_sorted(E.st[depth - 1], E.st[depth]))]
                  ELSE E
         IN web_eval_rpn_loop(F, Tail(seq), td, bin, n)

\* A slip at the end of web.py's eval_rpn: the top of the stack is returned
\* whatever is left under it.
web_eval_rpn_top(seq, td, bin, n) ==
    LET E == web_eval_rpn_loop([st |-> <<>>, ret |-> None, eof |-> FALSE],
                               seq, td, bin, n)
    IN IF E.eof THEN [eof |-> TRUE, hits |-> <<>>]
       ELSE IF E.ret # None THEN [eof |-> FALSE, hits |-> E.ret[1]]
       ELSE IF Len(E.st) >= 1 THEN [eof |-> FALSE, hits |-> E.st[Len(E.st)]]
       ELSE [eof |-> FALSE, hits |-> <<>>]

\* What eval_rpn of web.py returns: [eof |-> TRUE] for the EOFError, else
\* the hit list.
web_eval_rpn(seq, td, bin, n) ==
    LET E == web_eval_rpn_loop([st |-> <<>>, ret |-> None, eof |-> FALSE],
                               seq, td, bin, n)
    IN IF E.eof THEN [eof |-> TRUE, hits |-> <<>>]
       ELSE IF E.ret # None THEN [eof |-> FALSE, hits |-> E.ret[1]]
       ELSE IF Len(E.st) = 1 THEN [eof |-> FALSE, hits |-> E.st[1]]
       ELSE [eof |-> FALSE, hits |-> <<>>]

\* ------------------------------------------------------------------------
\* The values of the variables a specification leaves alone.
\* ------------------------------------------------------------------------

OpsIdle ==
    /\ opA = <<>> /\ opB = <<>> /\ opN = 0 /\ opRes = <<>> /\ opPc = "off"

BuildIdle ==
    /\ term_doc = <<>> /\ sorted_file = <<>>
    /\ asm = [cur_term |-> None, last_doc |-> None, postings |-> <<>>, offset |-> 0]
    /\ di = 0 /\ li = 0 /\ used = 0 /\ total_pairs = 0
    /\ bpc = "off"

NoIndex ==
    /\ input_dir = {} /\ docs = <<>>
    /\ use_stemming = TRUE /\ min_token_len = 2 /\ max_docs = 0
    /\ docs_tsv = <<>> /\ dict_tsv = <<>> /\ postings_bin = <<>>

NothingLoaded ==
    /\ term_dict = <<>> /\ loaded_docs = <<>> /\ n_docs = 0 /\ topk = 0
    /\ interactive = FALSE /\ failed = FALSE

\* The threads that call search over the one loaded index.
Workers == {"a", "b"}

\* A thread that is not inside search.
IdleCall ==
    [query |-> "", toks |-> <<>>, ti |-> 0, rpn |-> RpnStart, ri |-> 0,
     ev |-> EvalStart, res |-> [err |-> None, found |-> None], pc |-> "idle"]

NoSearch ==
    /\ query = "" /\ toks = <<>> /\ ti = 0
    /\ rpn = RpnStart /\ ri = 0 /\ ev = EvalStart /\ found = None
    /\ calls = [w \in Workers |-> IdleCall]

SearchIdle == NoSearch /\ qpc = "off"

WebIdle ==
    /\ web_term_dict = <<>> /\ web_docs = <<>> /\ web_n_docs = 0
    /\ web_q = "" /\ web_hits = <<>> /\ wpc = "off"

RobotIdle ==
    /\ frontier = {} /\ frontier_size = 0
    /\ max_frontier = 0 /\ recrawl_after = 0 /\ max_pages = 0
    /\ clock = 0 /\ item = None /\ ts = 0 /\ outcome = "none"
    /\ processed = 0 /\ fetched = <<>> /\ rpc = "off"

DownloadIdle ==
    /\ retries = 0 /\ gi = 0 /\ last_err = None /\ tries = <<>>
    /\ gres = None /\ gpc = "off"

LabIdle == RobotIdle /\ DownloadIdle

\* ------------------------------------------------------------------------
\* The set algebra applied to every pair of ascending lists.  opPc names
\* the operation whose result opRes holds.
\* ------------------------------------------------------------------------

notOps ==
    <<cfgVars, indexVars, buildVars, loadedVars, searchVars, webVars, labVars>>

InitOps ==
    /\ opA \in AscendingLists(MaxId)
    /\ opB \in AscendingLists(MaxId)
    /\ opN \in 0..MaxId
    /\ opRes = <<>>
    /\ opPc = "args"
    /\ NoIndex /\ BuildIdle /\ NothingLoaded /\ SearchIdle /\ WebIdle
    /\ LabIdle

Apply(pc, res) ==
    /\ opPc = "args"
    /\ opRes' = res
    /\ opPc' = pc
    /\ UNCHANGED <<opA, opB, opN, notOps>>

ApplyAnd == Apply("op_and", op_and(opA, opB))

ApplyOr == Apply("op_or", op_or(opA, opB))

ApplyNot == Apply("op_not", op_not(opA, opN))

ApplyIntersectSorted == Apply("intersect_sorted", intersect_sorted(opA, opB))

ApplyUnionSorted == Apply("union_sorted", union_sorted(opA, opB))

ApplyComplementSorted == Apply("complement_sorted", complement_sorted(opA, opN))

\* NOT applied to the result of NOT, as "NOT NOT a" evaluates it.
ApplyNotAgain ==
    /\ opPc = "op_not"
    /\ opRes' = op_not(opRes, opN)
    /\ opPc' = "op_not_twice"
    /\ UNCHANGED <<opA, opB, opN, notOps>>

ApplyComplementAgain ==
    /\ opPc = "complement_sorted"
    /\ opRes' = complement_sorted(opRes, opN)
    /\ opPc' = "complement_sorted_twice"
    /\ UNCHANGED <<opA, opB, opN, notOps>>

NextOps ==
    \/ ApplyAnd
    \/ ApplyOr
    \/ ApplyNot
    \/ ApplyIntersectSorted
    \/ ApplyUnionSorted
    \/ ApplyComplementSorted
    \/ ApplyNotAgain
    \/ ApplyComplementAgain

SpecOps == InitOps /\ [][NextOps]_vars

\* ------------------------------------------------------------------------
\* boolindex.py: main, one action per loop iteration and per stage.
\* ------------------------------------------------------------------------

\* The texts of a build's documents.
WideTexts == {"ocean", "Oceans, ocean ship"}

Pad2(k) == IF k < 10 THEN "0" \o Str(k) ELSE Str(k)

\* The k-th file (0-based) of the corpus, named so that the paths ascend.
DocFile(k, text) ==
    [src |-> "marinelink",
     fp |-> ("data_text/marinelink/" \o Pad2(k)) \o ".txt",
     text |-> text]

\* The corpus of n documents whose documents S hold the texts f.
Corpus(S, f, n) ==
    [k \in 1..n |-> DocFile(k - 1, IF (k - 1) \in S THEN f[k - 1] ELSE "")]

SparseCorpora(n, most, texts) ==
    UNION {{Corpus(S, f, n) : f \in [S -> texts]} :
              S \in {T \in SUBSET (0..(n - 1)) : Cardinality(T) <= most}}

notBuild == <<opsVars, loadedVars, searchVars, webVars, labVars>>

InitBuild ==
    /\ docs \in SparseCorpora(NumDocs, MaxTexts, WideTexts)
    /\ input_dir = Range(docs)
    /\ use_stemming = TRUE
    /\ min_token_len = 2
    /\ max_docs = 0
    /\ docs_tsv = <<>> /\ dict_tsv = <<>> /\ postings_bin = <<>>
    /\ term_doc = <<>> /\ sorted_file = <<>>
    /\ asm = [cur_term |-> None, last_doc |-> None, postings |-> <<>>, offset |-> 0]
    /\ di = 0 /\ li = 0 /\ used = 0 /\ total_pairs = 0
    /\ bpc = "main"
    /\ LabIdle /\ OpsIdle /\ NothingLoaded /\ SearchIdle /\ WebIdle

ListDocs_goes_on ==
    /\ bpc = "main"
    /\ bpc' = "extract"
    /\ UNCHANGED <<cfgVars, indexVars, term_doc, sorted_file, asm, di, li,
                   used, total_pairs, notBuild>>

\* Lines 133-135: no documents, no build.
ListDocs ==
    /\ bpc = "main"
    /\ bpc' = IF docs = <<>> THEN "exit" ELSE "extract"
    /\ UNCHANGED <<cfgVars, indexVars, term_doc, sorted_file, asm, di, li,
                   used, total_pairs, notBuild>>

\* A slip in build_term_doc_file: --max_docs is not looked at.
ExtractStops_without_cap == di >= Len(docs)

ExtractStops == di >= Len(docs) \/ (max_docs # 0 /\ di >= max_docs)

\* A slip in build_term_doc_file: the id counts the documents that had
\* terms, so a document without terms takes no id.
ExtractDoc_skips_empty ==
    /\ bpc = "extract"
    /\ ~ExtractStops
    /\ LET uniq == DocTerms(docs[di + 1].text, use_stemming, min_token_len)
           doc_id == Cardinality({ParseInt(SplitTab(term_doc[k])[2]) :
                                     k \in 1..Len(term_doc)})
       IN /\ \E order \in Orders(uniq) :
                term_doc' = term_doc \o
                    [k \in 1..Len(order) |-> PairLine(order[k], doc_id)]
          /\ total_pairs' = total_pairs + Cardinality(uniq)
    /\ used' = used + 1
    /\ di' = di + 1
    /\ UNCHANGED <<cfgVars, indexVars, sorted_file, asm, li, bpc, notBuild>>

\* A slip in build_term_doc_file: a line for every token, not for every
\* distinct term.
ExtractDoc_per_token ==
    /\ bpc = "extract"
    /\ ~ExtractStops
    /\ LET toks0 == tokenize(docs[di + 1].text)
           toks1 == SelectSeq(toks0, LAMBDA t : Len(t) >= min_token_len)
           toks2 == [k \in 1..Len(toks1) |->
                        IF use_stemming THEN simple_stem_en(toks1[k])
                        ELSE toks1[k]]
       IN /\ term_doc' = term_doc \o
                 [k \in 1..Len(toks2) |-> PairLine(toks2[k], di)]
          /\ total_pairs' = total_pairs + Len(toks2)
    /\ used' = used + 1
    /\ di' = di + 1
    /\ UNCHANGED <<cfgVars, indexVars, sorted_file, asm, li, bpc, notBuild>>

\* One iteration of the loop of build_term_doc_file: the pairs of document
\* di, in the order its term set is iterated.
ExtractDoc ==
    /\ bpc = "extract"
    /\ ~ExtractStops
    /\ LET uniq == DocTerms(docs[di + 1].text, use_stemming, min_token_len)
       IN /\ \E order \in Orders(uniq) :
                term_doc' = term_doc \o
                    [k \in 1..Len(order) |-> PairLine(order[k], di)]
          /\ total_pairs' = total_pairs + Cardinality(uniq)
    /\ used' = used + 1
    /\ di' = di + 1
    /\ UNCHANGED <<cfgVars, indexVars, sorted_file, asm, li, bpc, notBuild>>

ExtractEnd ==
    /\ bpc = "extract"
    /\ ExtractStops
    /\ bpc' = "sort"
    /\ UNCHANGED <<cfgVars, indexVars, term_doc, sorted_file, asm, di, li,
                   used, total_pairs, notBuild>>

\* Lines 144-147: sort(1) of the pair file.
SortStage ==
    /\ bpc = "sort"
    /\ sorted_file' = SortLines(term_doc)
    /\ bpc' = "docs_table"
    /\ UNCHANGED <<cfgVars, indexVars, term_doc, asm, di, li, used,
                   total_pairs, notBuild>>

WriteDocsTable ==
    /\ bpc = "docs_table"
    /\ docs_tsv' = write_docs_table(docs, max_docs)
    /\ bpc' = "open"
    /\ UNCHANGED <<cfgVars, dict_tsv, postings_bin, term_doc, sorted_file, asm,
                   di, li, used, total_pairs, notBuild>>

\* Lines 66-73: both output files are opened for writing, which empties
\* them.
AssembleOpen ==
    /\ bpc = "open"
    /\ postings_bin' = <<>>
    /\ dict_tsv' = <<>>
    /\ asm' = [cur_term |-> None, last_doc |-> None, postings |-> <<>>, offset |-> 0]
    /\ li' = 0
    /\ bpc' = "assemble"
    /\ UNCHANGED <<cfgVars, docs_tsv, term_doc, sorted_file, di, used,
                   total_pairs, notBuild>>

AsmState == asm @@ [post |-> postings_bin, dic |-> dict_tsv]

AsmFold(A) ==
    [cur_term |-> A.cur_term, last_doc |-> A.last_doc,
     postings |-> A.postings, offset |-> A.offset]

AssembleLine ==
    /\ bpc = "assemble"
    /\ li < Len(sorted_file)
    /\ LET A == assemble_line(AsmState, sorted_file[li + 1])
       IN /\ asm' = AsmFold(A)
          /\ postings_bin' = A.post
          /\ dict_tsv' = A.dic
    /\ li' = li + 1
    /\ UNCHANGED <<cfgVars, docs_tsv, term_doc, sorted_file, di, used,
                   total_pairs, bpc, notBuild>>

AssembleEnd ==
    /\ bpc = "assemble"
    /\ li >= Len(sorted_file)
    /\ LET A == assemble_end(AsmState)
       IN /\ asm' = AsmFold(A)
          /\ postings_bin' = A.post
          /\ dict_tsv' = A.dic
    /\ bpc' = "done"
    /\ UNCHANGED <<cfgVars, docs_tsv, term_doc, sorted_file, di, li, used,
                   total_pairs, notBuild>>

NextBuild ==
    \/ ListDocs
    \/ ExtractDoc
    \/ ExtractEnd
    \/ SortStage
    \/ WriteDocsTable
    \/ AssembleOpen
    \/ AssembleLine
    \/ AssembleEnd

SpecBuild == InitBuild /\ [][NextBuild]_vars

\* ------------------------------------------------------------------------
\* The index a build leaves, as a function of the corpus.
\* ------------------------------------------------------------------------

\* The pair lines of the documents from the k-th on, each document's in
\* some order.
RECURSIVE PairLinesFrom(_, _, _, _, _)
PairLinesFrom(ds, k, stem, min_len, cap) ==
    IF k >= Len(ds) \/ (cap # 0 /\ k >= cap) THEN <<>>
    ELSE LET uniq == DocTerms(ds[k + 1].text, stem, min_len)
             order == CHOOSE o \in Orders(uniq) : TRUE
         IN [j \in 1..Len(order) |-> PairLine(order[j], k)]
               \o PairLinesFrom(ds, k + 1, stem, min_len, cap)

RECURSIVE AssembleFrom(_, _)
AssembleFrom(A, lines) ==
    IF lines = <<>> THEN assemble_end(A)
    ELSE AssembleFrom(assemble_line(A, Head(lines)), Tail(lines))

build_inverted_from_sorted(lines) == AssembleFrom(AssemblerStart, lines)

BuildIndex(ds, stem, min_len, cap) ==
    LET A == build_inverted_from_sorted(
                 SortLines(PairLinesFrom(ds, 0, stem, min_len, cap)))
    IN [docs_tsv |-> write_docs_table(ds, cap),
        dict_tsv |-> A.dic,
        postings_bin |-> A.post]

\* ------------------------------------------------------------------------
\* boolindex.py: main from its first line, over a small input directory,
\* with each command line.
\* ------------------------------------------------------------------------

CorpusTexts == <<"ship war ocean", "Oceans, ocean", "a war">>

\* The k-th candidate file: the sources alternate and the names descend, so
\* that neither the order of creation nor glob's order is the order of the
\* paths.
CorpusFile(k) ==
    LET src == IF k % 2 = 0 THEN "wikipedia_en" ELSE "marinelink"
    IN [src |-> src,
        fp |-> ((("data_text/" \o src) \o "/") \o Str(9 - k)) \o ".txt",
        text |-> CorpusTexts[(k % Len(CorpusTexts)) + 1]]

\* A file of a source boolindex.py does not read.
StrayFile == [src |-> "notes", fp |-> "data_text/notes/0.txt", text |-> "ocean"]

InputDirs ==
    {S \cup {StrayFile} : S \in SUBSET {CorpusFile(k) : k \in 0..(MaxFiles - 1)}}

InitCorpus ==
    /\ input_dir \in InputDirs
    /\ docs = <<>>
    /\ use_stemming \in BOOLEAN
    /\ min_token_len \in {1, 2}
    /\ max_docs \in {0, 1}
    /\ docs_tsv = <<>> /\ dict_tsv = <<>> /\ postings_bin = <<>>
    /\ term_doc = <<>> /\ sorted_file = <<>>
    /\ asm = [cur_term |-> None, last_doc |-> None, postings |-> <<>>, offset |-> 0]
    /\ di = 0 /\ li = 0 /\ used = 0 /\ total_pairs = 0
    /\ bpc = "glob"
    /\ LabIdle /\ OpsIdle /\ NothingLoaded /\ SearchIdle /\ WebIdle

\* The files glob finds for a source.
Globbed(src) == {f \in input_dir : f.src = src}

\* Line 133: list_docs, glob returning the files of each source in some
\* order.
GlobDocs ==
    /\ bpc = "glob"
    /\ \E wikipedia \in Orders(Globbed("wikipedia_en")),
          marinelink \in Orders(Globbed("marinelink")) :
          docs' = list_docs(wikipedia, marinelink)
    /\ bpc' = "main"
    /\ UNCHANGED <<input_dir, use_stemming, min_token_len, max_docs, indexVars,
                   term_doc, sorted_file, asm, di, li, used, total_pairs,
                   notBuild>>

NextCorpus ==
    \/ GlobDocs
    \/ NextBuild

SpecCorpus == InitCorpus /\ [][NextCorpus]_vars

\* ------------------------------------------------------------------------
\* build_inverted_from_sorted over the sorted pair file of a large corpus:
\* two terms, each in a few documents whose ids take one, two or three
\* bytes.
\* ------------------------------------------------------------------------

CodecIds == {0, 1, 255, 256, 300, 70000}

CodecTerms == {"ocean", "ship"}

\* The pair lines of the term in the documents S.
TermLines(term, S) ==
    LET order == CHOOSE o \in Orders(S) : TRUE
    IN [k \in 1..Len(order) |-> PairLine(term, order[k])]

CodecSortedFiles ==
    {SortLines(TermLines("ocean", ids["ocean"]) \o TermLines("ship", ids["ship"])) :
        ids \in [CodecTerms -> {S \in SUBSET CodecIds : Cardinality(S) <= MaxPostings}]}

InitCodec ==
    /\ sorted_file \in CodecSortedFiles
    /\ input_dir = {} /\ docs = <<>>
    /\ use_stemming = TRUE /\ min_token_len = 2 /\ max_docs = 0
    /\ docs_tsv = <<>> /\ dict_tsv = <<>> /\ postings_bin = <<>>
    /\ term_doc = <<>>
    /\ asm = [cur_term |-> None, last_doc |-> None, postings |-> <<>>, offset |-> 0]
    /\ di = 0 /\ li = 0 /\ used = 0 /\ total_pairs = 0
    /\ bpc = "open"
    /\ LabIdle /\ OpsIdle /\ NothingLoaded /\ SearchIdle /\ WebIdle

NextCodec ==
    \/ AssembleOpen
    \/ AssembleLine
    \/ AssembleEnd

SpecCodec == InitCodec /\ [][NextCodec]_vars

\* ------------------------------------------------------------------------
\* boolsearch.py: main, over an index a build wrote.  One action per
\* iteration of the loops of to_rpn and eval_rpn.
\* ------------------------------------------------------------------------

DefaultTopK == 10

\* Python's a[:k].
Prefix(a, k) ==
    IF k >= 0 THEN SubSeq(a, 1, IF k < Len(a) THEN k ELSE Len(a))
    ELSE SubSeq(a, 1, Len(a) + k)

\* to_rpn: the loop over the tokens, then the stack is drained.
RECURSIVE to_rpn_from(_, _, _)
to_rpn_from(R, tokens, i) ==
    IF R.err # None THEN R
    ELSE IF i > Len(tokens) THEN to_rpn_end(R)
    ELSE to_rpn_from(to_rpn_token(R, tokens[i]), tokens, i + 1)

to_rpn(tokens) == to_rpn_from(RpnStart, tokens, 1)

\* eval_rpn: the loop over the RPN sequence, then the check of the stack.
RECURSIVE eval_rpn_from(_, _, _, _, _, _)
eval_rpn_from(E, seq, i, td, bin, n) ==
    IF E.err # None THEN E
    ELSE IF i > Len(seq) THEN eval_rpn_end(E)
    ELSE eval_rpn_from(eval_rpn_token(E, seq[i], td, bin, n), seq, i + 1,
                       td, bin, n)

eval_rpn(seq, td, bin, n) == eval_rpn_from(EvalStart, seq, 1, td, bin, n)

\* search, run from its first line to its return or its exception.
search(q, td, bin, n, k) ==
    LET R == to_rpn(q_tokenize(q))
        E == eval_rpn(R.out, td, bin, n)
    IN  IF R.err # None THEN [err |-> R.err, found |-> None]
        ELSE IF E.err # None THEN [err |-> E.err, found |-> None]
        ELSE [err |-> None,
              found |-> Some(<<Prefix(E.st[1], k), Len(E.st[1])>>)]

\* The words joined by single spaces.
RECURSIVE Join(_)
Join(words) ==
    IF words = <<>> THEN ""
    ELSE IF Len(words) = 1 THEN words[1]
    ELSE (words[1] \o " ") \o Join(Tail(words))

\* The strings of 1 .. most words of W.
Phrases(W, most) ==
    UNION {{Join(ws) : ws \in [1..len -> W]} : len \in 1..most}

\* A corpus of n documents, each with one of the texts.
DenseCorpora(n, texts) ==
    {[k \in 1..n |-> DocFile(k - 1, f[k])] : f \in [1..n -> texts]}

\* The words of a query, the texts of a queried corpus, the lines typed at
\* the prompt and the queries given with --query.
QueryWords == {"(", ")", "AND", "OR", "NOT", "ocean", "ship"}
QueryTexts == {"ocean", "ocean ship"}
Queries == Phrases(QueryWords, MaxQueryLen)
ArgQueries == {""} \cup QueryWords

\* The state in which main of boolsearch.py has loaded the index built from
\* the corpus ds.
LoadedIndex(ds, index, k) ==
    /\ input_dir = Range(ds) /\ docs = ds
    /\ use_stemming = TRUE /\ min_token_len = 2 /\ max_docs = 0
    /\ docs_tsv = index.docs_tsv
    /\ dict_tsv = index.dict_tsv
    /\ postings_bin = index.postings_bin
    /\ term_dict = load_dict(index.dict_tsv)
    /\ loaded_docs = load_docs(index.docs_tsv)
    /\ n_docs = Len(load_docs(index.docs_tsv))
    /\ topk = k
    /\ interactive = FALSE /\ failed = FALSE
    /\ NoSearch
    /\ qpc = "main"
    /\ LabIdle /\ OpsIdle /\ BuildIdle /\ WebIdle

Loaded(ds) == LoadedIndex(ds, BuildIndex(ds, TRUE, 2, 0), DefaultTopK)

InitQuery == \E ds \in DenseCorpora(QueryDocs, QueryTexts) : Loaded(ds)

notSearch == <<opsVars, cfgVars, indexVars, buildVars, webVars, labVars>>

frame == <<term_dict, loaded_docs, n_docs, topk, calls, notSearch>>

\* search begins: q_tokenize, and to_rpn's first lines.
Search(q) ==
    /\ query' = q
    /\ toks' = q_tokenize(q)
    /\ ti' = 0
    /\ rpn' = RpnStart
    /\ ri' = 0
    /\ ev' = EvalStart
    /\ found' = None
    /\ qpc' = "to_rpn"

\* Lines 176-177: --query gave the query.
RunQuery(Q) ==
    /\ qpc = "main"
    /\ \E q \in Q : Search(q)
    /\ interactive' = FALSE
    /\ UNCHANGED <<failed, frame>>

\* Line 184: no --query, so the loop is entered.
EnterLoop ==
    /\ qpc = "main"
    /\ qpc' = "prompt"
    /\ interactive' = TRUE
    /\ UNCHANGED <<query, toks, ti, rpn, ri, ev, found, failed, frame>>

\* Lines 185-189: a line is read, and searched unless it is empty.
ReadQuery(Q) ==
    /\ qpc = "prompt"
    /\ \E q \in Q : Search(q)
    /\ UNCHANGED <<interactive, failed, frame>>

\* Lines 186-187: an empty line ends the loop.
ReadEmptyLine ==
    /\ qpc = "prompt"
    /\ qpc' = "exit"
    /\ UNCHANGED <<query, toks, ti, rpn, ri, ev, found, interactive, failed, frame>>

ToRpnToken ==
    /\ qpc = "to_rpn"
    /\ ti < Len(toks)
    /\ rpn' = to_rpn_token(rpn, toks[ti + 1])
    /\ ti' = ti + 1
    /\ qpc' = IF rpn'.err # None THEN "except" ELSE "to_rpn"
    /\ UNCHANGED <<query, toks, ri, ev, found, interactive, failed, frame>>

ToRpnEnd ==
    /\ qpc = "to_rpn"
    /\ ti >= Len(toks)
    /\ rpn' = to_rpn_end(rpn)
    /\ qpc' = IF rpn'.err # None THEN "except" ELSE "eval_rpn"
    /\ UNCHANGED <<query, toks, ti, ri, ev, found, interactive, failed, frame>>

EvalRpnToken ==
    /\ qpc = "eval_rpn"
    /\ ri < Len(rpn.out)
    /\ ev' = eval_rpn_token(ev, rpn.out[ri + 1], term_dict, postings_bin, n_docs)
    /\ ri' = ri + 1
    /\ qpc' = IF ev'.err # None THEN "except" ELSE "eval_rpn"
    /\ UNCHANGED <<query, toks, ti, rpn, found, interactive, failed, frame>>

\* eval_rpn returns st[0] or raises, and search returns (ids[:topk],
\* len(ids)).
EvalRpnEnd ==
    /\ qpc = "eval_rpn"
    /\ ri >= Len(rpn.out)
    /\ ev' = eval_rpn_end(ev)
    /\ IF ev'.err # None
       THEN qpc' = "except" /\ found' = None
       ELSE /\ qpc' = "print"
            /\ found' = Some(<<Prefix(ev.st[1], topk), Len(ev.st[1])>>)
    /\ UNCHANGED <<query, toks, ti, rpn, ri, interactive, failed, frame>>

\* Lines 178-182 and 190-193: the hits are printed; docs[d] raises for a
\* d outside the document table.
PrintHits ==
    /\ qpc = "print"
    /\ IF \E k \in 1..Len(found[1][1]) : found[1][1][k] >= Len(loaded_docs)
       THEN /\ qpc' = IF interactive THEN "prompt" ELSE "crash"
            /\ failed' = (failed \/ interactive)
       ELSE /\ qpc' = IF interactive THEN "prompt" ELSE "exit"
            /\ UNCHANGED failed
    /\ query' = "" /\ toks' = <<>> /\ ti' = 0
    /\ rpn' = RpnStart /\ ri' = 0 /\ ev' = EvalStart /\ found' = None
    /\ UNCHANGED <<interactive, frame>>

Except_uncaught ==
    /\ qpc = "except"
    /\ qpc' = "crash"
    /\ failed' = TRUE
    /\ query' = "" /\ toks' = <<>> /\ ti' = 0
    /\ rpn' = RpnStart /\ ri' = 0 /\ ev' = EvalStart /\ found' = None
    /\ UNCHANGED <<interactive, frame>>

\* Lines 194-195: in the loop the error is printed and the next line is
\* read; with --query nothing catches it.
Except ==
    /\ qpc = "except"
    /\ qpc' = IF interactive THEN "prompt" ELSE "crash"
    /\ failed' = TRUE
    /\ query' = "" /\ toks' = <<>> /\ ti' = 0
    /\ rpn' = RpnStart /\ ri' = 0 /\ ev' = EvalStart /\ found' = None
    /\ UNCHANGED <<interactive, frame>>

SearchSteps ==
    \/ EnterLoop
    \/ ReadEmptyLine
    \/ ToRpnToken
    \/ ToRpnEnd
    \/ EvalRpnToken
    \/ EvalRpnEnd
    \/ PrintHits
    \/ Except

NextQuery ==
    \/ RunQuery(ArgQueries)
    \/ ReadQuery(Queries)
    \/ SearchSteps

SpecQuery == InitQuery /\ [][NextQuery]_vars

\* ------------------------------------------------------------------------
\* The same program over every index of three terms, asked the queries of
\* three shapes: "x OR y AND z", "NOT x AND y", and "x y", which is no
\* query.
\* ------------------------------------------------------------------------

ShapeTerms == {"ocean", "ship", "war"}

ShapeTexts ==
    {"", "ocean", "ship", "war", "ocean ship", "ocean war", "ship war",
     "ocean ship war"}

OrAndQuery(x, y, z) == Join(<<x, "OR", y, "AND", z>>)
NotAndQuery(x, y) == Join(<<"NOT", x, "AND", y>>)
PairQuery(x, y) == Join(<<x, y>>)

ShapeQueries ==
    {OrAndQuery(x, y, z) : x \in ShapeTerms, y \in ShapeTerms, z \in ShapeTerms}
        \cup {NotAndQuery(x, y) : x \in ShapeTerms, y \in ShapeTerms}
        \cup {PairQuery(x, y) : x \in ShapeTerms, y \in ShapeTerms}

InitShapes == \E ds \in DenseCorpora(ShapeDocs, ShapeTexts) : Loaded(ds)

NextShapes ==
    \/ ReadQuery(ShapeQueries)
    \/ SearchSteps

SpecShapes == InitShapes /\ [][NextShapes]_vars

\* ------------------------------------------------------------------------
\* The same program over the index of three documents: "ocean pollution",
\* "ocean biology", "ship war".
\* ------------------------------------------------------------------------

ScenarioCorpus ==
    <<DocFile(0, "ocean pollution"),
      DocFile(1, "ocean biology"),
      DocFile(2, "ship war")>>

ScenarioTerms == {"ocean", "pollution", "biology", "ship", "war"}

ScenarioQueries ==
    {Join(<<x, "AND", y>>) : x \in ScenarioTerms, y \in ScenarioTerms}
        \cup {Join(<<x, "OR", y>>) : x \in ScenarioTerms, y \in ScenarioTerms}
        \cup {Join(<<x, "AND", "NOT", y>>) : x \in ScenarioTerms, y \in ScenarioTerms}
        \cup {"(a AND b", "AND ocean"}

InitScenario == Loaded(ScenarioCorpus)

NextScenario ==
    \/ ReadQuery(ScenarioQueries)
    \/ SearchSteps

SpecScenario == InitScenario /\ [][NextScenario]_vars

\* ------------------------------------------------------------------------
\* The same program started with each --topk argparse accepts (type=int):
\* negative, zero, below and above the number of hits.
\* ------------------------------------------------------------------------

TopKs == {-1, 0, 1, 2, DefaultTopK}

TopKQueries ==
    {"ocean", "ship", "NOT ship", "ocean OR ship", "ocean AND ship", "(", "AND"}

InitTopK ==
    \E ds \in DenseCorpora(QueryDocs, QueryTexts), k \in TopKs :
        LoadedIndex(ds, BuildIndex(ds, TRUE, 2, 0), k)

NextTopK ==
    \/ RunQuery(TopKQueries)
    \/ ReadQuery(TopKQueries)
    \/ SearchSteps

SpecTopK == InitTopK /\ [][NextTopK]_vars

\* ------------------------------------------------------------------------
\* search called from several threads over one loaded index. Each call has
\* its own toks, rpn and st, and read_postings opens the postings file for
\* itself; the threads are interleaved between the iterations of the loops.
\* ------------------------------------------------------------------------

ConcurrentQueries == {"ocean", "NOT ship", "ocean AND ship", "("}

InitConcurrent ==
    \E ds \in DenseCorpora(QueryDocs, QueryTexts) : Loaded(ds)

notCalls ==
    <<query, toks, ti, rpn, ri, ev, found, qpc, loadedVars, notSearch>>

\* Lines 155-156: a thread enters search.
Call(w, q) ==
    /\ calls[w].pc = "idle"
    /\ calls' = [calls EXCEPT ![w] =
                    [IdleCall EXCEPT !.query = q, !.toks = q_tokenize(q),
                                     !.pc = "to_rpn"]]
    /\ UNCHANGED notCalls

\* One iteration of to_rpn's loop, or its end.
StepToRpn(w) ==
    LET c == calls[w]
        more == c.ti < Len(c.toks)
        R == IF more THEN to_rpn_token(c.rpn, c.toks[c.ti + 1])
             ELSE to_rpn_end(c.rpn)
    IN  /\ c.pc = "to_rpn"
        /\ calls' = [calls EXCEPT ![w] =
              [c EXCEPT !.rpn = R,
                        !.ti = IF more THEN c.ti + 1 ELSE c.ti,
                        !.res = IF R.err # None
                                THEN [err |-> R.err, found |-> None]
                                ELSE c.res,
                        !.pc = IF R.err # None THEN "raised"
                               ELSE IF more THEN "to_rpn" ELSE "eval_rpn"]]
        /\ UNCHANGED notCalls

StepEvalRpn_shared_stack(w) ==
    LET c == calls[w]
        more == c.ri < Len(c.rpn.out)
        shared == [c.ev EXCEPT !.st = calls["a"].ev.st]
        E == IF more
             THEN eval_rpn_token(shared, c.rpn.out[c.ri + 1], term_dict,
                                 postings_bin, n_docs)
             ELSE eval_rpn_end(shared)
        written == [calls EXCEPT !["a"].ev.st = E.st]
    IN  /\ c.pc = "eval_rpn"
        /\ calls' = [written EXCEPT ![w] =
              [c EXCEPT !.ev = E,
                        !.ri = IF more THEN c.ri + 1 ELSE c.ri,
                        !.res = IF E.err # None
                                THEN [err |-> E.err, found |-> None]
                                ELSE IF more THEN c.res
                                ELSE [err |-> None,
                                      found |-> Some(<<Prefix(E.st[1], topk),
                                                       Len(E.st[1])>>)],
                        !.pc = IF E.err # None THEN "raised"
                               ELSE IF more THEN "eval_rpn" ELSE "returned"]]
        /\ UNCHANGED notCalls

\* One iteration of eval_rpn's loop, or its end and search's return.
StepEvalRpn(w) ==
    LET c == calls[w]
        more == c.ri < Len(c.rpn.out)
        E == IF more
             THEN eval_rpn_token(c.ev, c.rpn.out[c.ri + 1], term_dict,
                                 postings_bin, n_docs)
             ELSE eval_rpn_end(c.ev)
    IN  /\ c.pc = "eval_rpn"
        /\ calls' = [calls EXCEPT ![w] =
              [c EXCEPT !.ev = E,
                        !.ri = IF more THEN c.ri + 1 ELSE c.ri,
                        !.res = IF E.err # None
                                THEN [err |-> E.err, found |-> None]
                                ELSE IF more THEN c.res
                                ELSE [err |-> None,
                                      found |-> Some(<<Prefix(E.st[1], topk),
                                                       Len(E.st[1])>>)],
                        !.pc = IF E.err # None THEN "raised"
                               ELSE IF more THEN "eval_rpn" ELSE "returned"]]
        /\ UNCHANGED notCalls

\* The caller has the result, or the exception, and the locals are gone.
Return(w) ==
    /\ calls[w].pc \in {"returned", "raised"}
    /\ calls' = [calls EXCEPT ![w] = IdleCall]
    /\ UNCHANGED notCalls

NextConcurrent ==
    \E w \in Workers :
        \/ \E q \in ConcurrentQueries : Call(w, q)
        \/ StepToRpn(w)
        \/ StepEvalRpn(w)
        \/ Return(w)

SpecConcurrent == InitConcurrent /\ [][NextConcurrent]_vars

\* ------------------------------------------------------------------------
\* boolsearch.py over an index whose postings.bin lost its last bytes after
\* the build, so that dictionary entries point past the end of the file.
\* ------------------------------------------------------------------------

CorruptQueries == {"ocean", "ship", "ocean OR ship", "NOT ship", "AND"}

\* The index with the last cut bytes of postings.bin missing.
Truncated(index, cut) ==
    [index EXCEPT !.postings_bin = SubSeq(@, 1, Len(@) - cut)]

InitCorrupt ==
    \E ds \in DenseCorpora(QueryDocs, QueryTexts) :
        \E cut \in 1..Len(BuildIndex(ds, TRUE, 2, 0).postings_bin) :
            LoadedIndex(ds, Truncated(BuildIndex(ds, TRUE, 2, 0), cut),
                        DefaultTopK)

NextCorrupt ==
    \/ RunQuery(CorruptQueries)
    \/ ReadQuery(CorruptQueries)
    \/ SearchSteps

SpecCorrupt == InitCorrupt /\ [][NextCorrupt]_vars

\* ------------------------------------------------------------------------
\* boolindex.py run over an index directory that holds the files of an
\* earlier build, with the two failures main does not catch: sort(1)
\* exiting non-zero (check=True) and an I/O error inside
\* build_inverted_from_sorted.
\* ------------------------------------------------------------------------

PreviousCorpus ==
    <<DocFile(0, "war"), DocFile(1, "war ship"), DocFile(2, "war")>>

PreviousIndex == BuildIndex(PreviousCorpus, TRUE, 2, 0)

InitRebuild ==
    /\ docs \in DenseCorpora(QueryDocs, QueryTexts)
    /\ input_dir = Range(docs)
    /\ use_stemming = TRUE
    /\ min_token_len = 2
    /\ max_docs = 0
    /\ docs_tsv = PreviousIndex.docs_tsv
    /\ dict_tsv = PreviousIndex.dict_tsv
    /\ postings_bin = PreviousIndex.postings_bin
    /\ term_doc = <<>> /\ sorted_file = <<>>
    /\ asm = [cur_term |-> None, last_doc |-> None, postings |-> <<>>, offset |-> 0]
    /\ di = 0 /\ li = 0 /\ used = 0 /\ total_pairs = 0
    /\ bpc = "main"
    /\ LabIdle /\ OpsIdle /\ NothingLoaded /\ SearchIdle /\ WebIdle

\* Lines 144-147: subprocess.run(..., check=True) raises when sort fails;
\* docs.tsv has not been written yet.
SortFails ==
    /\ bpc = "sort"
    /\ bpc' = "aborted"
    /\ UNCHANGED <<cfgVars, indexVars, term_doc, sorted_file, asm, di, li,
                   used, total_pairs, notBuild>>

\* An OSError inside the with block of build_inverted_from_sorted: the
\* files are closed with what has been written to them.
AssembleFails ==
    /\ bpc = "assemble"
    /\ bpc' = "aborted"
    /\ UNCHANGED <<cfgVars, indexVars, term_doc, sorted_file, asm, di, li,
                   used, total_pairs, notBuild>>

NextRebuild ==
    \/ NextBuild
    \/ SortFails
    \/ AssembleFails

SpecRebuild == InitRebuild /\ [][NextRebuild]_vars

\* ------------------------------------------------------------------------
\* boolsearch.py asked for words that begin with an operator keyword, and
\* for the keywords in other letter cases.  No query here has a parenthesis.
\* ------------------------------------------------------------------------

LexCorpus == <<DocFile(0, "order notes"), DocFile(1, "android for ocean")>>

LexQueries ==
    {"order", "android", "notes", "for", "ocean", "Not ocean", "ocean or for",
     "ocean AND notes", "ocean and", "AND"}

InitLex == Loaded(LexCorpus)

NextLex ==
    \/ RunQuery(LexQueries)
    \/ ReadQuery(LexQueries)
    \/ SearchSteps

SpecLex == InitLex /\ [][NextLex]_vars

\* ------------------------------------------------------------------------
\* boolsearch.py over the index of each build configuration, asked for the
\* tokens of the documents.
\* ------------------------------------------------------------------------

VocabTexts == {"oceans", "ocean war"}

VocabQueries == {"oceans", "ocean", "war", "AND"}

InitVocab ==
    /\ \E ds \in DenseCorpora(QueryDocs, VocabTexts) :
          /\ input_dir = Range(ds) /\ docs = ds
          /\ use_stemming \in BOOLEAN
          /\ min_token_len \in {1, 2, 4}
          /\ max_docs = 0
          /\ LET index == BuildIndex(ds, use_stemming, min_token_len, 0)
             IN /\ docs_tsv = index.docs_tsv
                /\ dict_tsv = index.dict_tsv
                /\ postings_bin = index.postings_bin
                /\ term_dict = load_dict(index.dict_tsv)
                /\ loaded_docs = load_docs(index.docs_tsv)
                /\ n_docs = Len(load_docs(index.docs_tsv))
    /\ topk = DefaultTopK
    /\ interactive = FALSE /\ failed = FALSE
    /\ NoSearch
    /\ qpc = "main"
    /\ LabIdle /\ OpsIdle /\ BuildIdle /\ WebIdle

NextVocab ==
    \/ RunQuery(VocabQueries)
    \/ ReadQuery(VocabQueries)
    \/ SearchSteps

SpecVocab == InitVocab /\ [][NextVocab]_vars

\* ------------------------------------------------------------------------
\* web.py: the app made over an index a build wrote, and its handler.
\* ------------------------------------------------------------------------

notWeb ==
    <<opsVars, cfgVars, indexVars, buildVars, loadedVars, searchVars, labVars>>

\* make_app: the index is loaded when the app is made.
InitWeb ==
    /\ \E ds \in DenseCorpora(QueryDocs, QueryTexts) :
          /\ input_dir = Range(ds) /\ docs = ds
          /\ LET index == BuildIndex(ds, TRUE, 2, 0)
             IN /\ docs_tsv = index.docs_tsv
                /\ dict_tsv = index.dict_tsv
                /\ postings_bin = index.postings_bin
                /\ web_term_dict = web_load_dict(index.dict_tsv)
                /\ web_docs = web_load_docs(index.docs_tsv)
                /\ web_n_docs = Len(web_load_docs(index.docs_tsv))
    /\ use_stemming = TRUE /\ min_token_len = 2 /\ max_docs = 0
    /\ web_q = "" /\ web_hits = <<>> /\ wpc = "serving"
    /\ LabIdle /\ OpsIdle /\ BuildIdle /\ NothingLoaded /\ SearchIdle

\* home: one GET / with the query q; without q no search is made.  An
\* EOFError of read_varint leaves the handler, and the request fails.
Home(q) ==
    /\ wpc = "serving"
    /\ web_q' = q
    /\ IF q = ""
       THEN web_hits' = <<>> /\ wpc' = "rendered"
       ELSE LET r == web_eval_rpn(web_to_rpn(query_tokenize(q)),
                                  web_term_dict, postings_bin, web_n_docs)
            IN /\ web_hits' = r.hits
               /\ wpc' = IF r.eof THEN "failed" ELSE "rendered"
    /\ UNCHANGED <<web_term_dict, web_docs, web_n_docs, notWeb>>

\* The response is sent; q and hits are locals of the handler.
Respond ==
    /\ wpc \in {"rendered", "failed"}
    /\ web_q' = "" /\ web_hits' = <<>> /\ wpc' = "serving"
    /\ UNCHANGED <<web_term_dict, web_docs, web_n_docs, notWeb>>

NextWeb ==
    \/ \E q \in Queries \cup {""} : Home(q)
    \/ Respond

SpecWeb == InitWeb /\ [][NextWeb]_vars

\* ------------------------------------------------------------------------
\* Claims on the set algebra
\* ------------------------------------------------------------------------

\* ------------------------------------------------------------------------
\* The index a build leaves.
\* ------------------------------------------------------------------------

\* The posting list read_postings decodes for a term from the files of the
\* build.
Decoded(term) == read_postings(term, load_dict(dict_tsv), postings_bin)

\* C1: after a build, the doc-id list read_postings decodes for every term
\* of the dictionary is strictly increasing (so without duplicates), in
\* whatever order the sorted file delivered the term's lines: flush writes
\* the same bytes for every order of a term's ids.
C1_PostingsStrictlyIncreasing ==
    bpc = "done" =>
        \A term \in DOMAIN load_dict(dict_tsv) :
            /\ Decoded(term) # <<>>
            /\ IsStrictlyAscending(Decoded(term))
            /\ \A order \in Orders(Range(Decoded(term))) :
                  flush(Some(term), order, AssemblerStart).post
                      = PackAll(Decoded(term))

\* A build in which sort delivered document 10 of "ocean" before document 2.
C1_Witness ==
    /\ bpc = "done"
    /\ \E i, j \in 1..Len(sorted_file) :
          /\ i < j
          /\ sorted_file[i] = PairLine("ocean", 10)
          /\ sorted_file[j] = PairLine("ocean", 2)
    /\ Decoded("ocean") = <<2, 10>>

\* ------------------------------------------------------------------------
\* Queries.
\* ------------------------------------------------------------------------

\* P(t): the posting list of the term t in the loaded index.
P(t) == read_postings(t, term_dict, postings_bin)

\* The ids of the hits a finished search returned.
Hits == found[1][1]

\* search returned all the ids, ascending (they are fewer than topk).
WholeResult ==
    /\ found # None
    /\ found[1][2] = Len(Hits)
    /\ IsStrictlyAscending(Hits)

Universe == 0..(n_docs - 1)

IsTerm(t) == t \notin Operators

\* C2: "a OR b AND c" returns P(a) union (P(b) intersect P(c)): to_rpn
\* puts AND before OR in the evaluation order.
C2_AndBindsTighterThanOr ==
    (/\ qpc = "print"
     /\ Len(toks) = 5
     /\ toks[2] = "OR" /\ toks[4] = "AND"
     /\ IsTerm(toks[1]) /\ IsTerm(toks[3]) /\ IsTerm(toks[5]))
        => /\ rpn.out = <<toks[1], toks[3], toks[5], "AND", "OR">>
           /\ WholeResult
           /\ Range(Hits) = Range(P(toks[1]))
                               \cup (Range(P(toks[3])) \cap Range(P(toks[5])))

\* A query for which (a OR b) AND c would have returned document 1 alone.
C2_Witness ==
    /\ qpc = "print"
    /\ query = "ocean OR ship AND war"
    /\ P("ocean") = <<0>> /\ P("ship") = <<1>> /\ P("war") = <<1>>
    /\ Hits = <<0, 1>>

\* C3: "NOT a AND b" returns (the complement of P(a)) intersect P(b): NOT
\* is applied to the operand that follows it before AND is applied.
C3_NotBindsTighterThanAnd ==
    (/\ qpc = "print"
     /\ Len(toks) = 4
     /\ toks[1] = "NOT" /\ toks[3] = "AND"
     /\ IsTerm(toks[2]) /\ IsTerm(toks[4]))
        => /\ rpn.out = <<toks[2], "NOT", toks[4], "AND">>
           /\ WholeResult
           /\ Range(Hits) = (Universe \ Range(P(toks[2]))) \cap Range(P(toks[4]))

\* A query for which NOT (a AND b) would have returned both documents.
C3_Witness ==
    /\ qpc = "print"
    /\ query = "NOT ocean AND ship"
    /\ P("ocean") = <<0>> /\ P("ship") = <<1>>
    /\ Hits = <<1>>

\* The parentheses of ps pair up: none closes at depth 0, none is left open.
RECURSIVE Balances(_, _)
Balances(ps, depth) ==
    IF ps = <<>> THEN depth = 0
    ELSE IF Head(ps) = "(" THEN Balances(Tail(ps), depth + 1)
    ELSE IF Head(ps) = ")" THEN depth > 0 /\ Balances(Tail(ps), depth - 1)
    ELSE Balances(Tail(ps), depth)

\* The tokens of web.py's lexer, its parentheses written "(" and ")".
WebParens(tokens) ==
    [k \in 1..Len(tokens) |->
        IF tokens[k][1] = TT_LP THEN "("
        ELSE IF tokens[k][1] = TT_RP THEN ")"
        ELSE "term"]

\* C4: to_rpn fails with the mismatched-parentheses error for every token
\* sequence whose parentheses do not balance.  Of web.py's to_rpn: a query
\* the handler answered had balanced parentheses.
C4_WebToRpnRejectsUnbalanced ==
    (wpc = "rendered" /\ web_q # "")
        => Balances(WebParens(query_tokenize(web_q)), 0)

\* C4, of boolsearch.py's to_rpn: it raises "Mismatched parentheses" for
\* the unbalanced sequences and for no other, and before eval_rpn has read
\* any posting list.
C4_ToRpnRejectsUnbalanced ==
    /\ qpc \in {"eval_rpn", "print"} => Balances(toks, 0) /\ rpn.err = None
    /\ qpc = "except" =>
          /\ rpn.err # None <=> ~Balances(toks, 0)
          /\ rpn.err # None =>
                /\ rpn.err = Some("Mismatched parentheses")
                /\ ev = EvalStart
                /\ found = None

\* The position in the operation sequence seq, from position k with depth
\* lists on the stack, of the first operator that lacks an operand; 0 when
\* there is none.
RECURSIVE StarvedAt(_, _, _)
StarvedAt(seq, k, depth) ==
    IF k > Len(seq) THEN 0
    ELSE IF seq[k] = "NOT"
    THEN IF depth = 0 THEN k ELSE StarvedAt(seq, k + 1, depth)
    ELSE IF seq[k] \in {"AND", "OR"}
    THEN IF depth < 2 THEN k ELSE StarvedAt(seq, k + 1, depth - 1)
    ELSE StarvedAt(seq, k + 1, depth + 1)

\* The number of lists the operation sequence seq leaves on the stack.
RECURSIVE SetsLeft(_)
SetsLeft(seq) ==
    IF seq = <<>> THEN 0
    ELSE LET t == seq[Len(seq)]
             before == SetsLeft(SubSeq(seq, 1, Len(seq) - 1))
         IN IF t = "NOT" THEN before
            ELSE IF t \in {"AND", "OR"} THEN before - 1
            ELSE before + 1

\* to_rpn returned, and eval_rpn has returned or raised.
Evaluated == qpc \in {"print", "except"} /\ rpn.err = None

\* C5: eval_rpn raises the missing-operand error at the first AND or OR
\* that finds fewer than two lists on the stack, or NOT that finds none,
\* and returns no hit list for such an operation sequence.
C5_MissingOperand ==
    LET k == StarvedAt(rpn.out, 1, 0)
    IN Evaluated =>
          IF k # 0
          THEN /\ qpc = "except"
               /\ ri = k
               /\ ev.err = Some(rpn.out[k] \o " missing operand")
               /\ found = None
          ELSE ev.err \notin {Some("AND missing operand"),
                              Some("OR missing operand"),
                              Some("NOT missing operand")}

\* The spec's example: "AND ocean".
C5_Witness ==
    /\ qpc = "except"
    /\ query = "AND ocean"
    /\ rpn.out = <<"ocean", "AND">>
    /\ ev.err = Some("AND missing operand")

\* C6: eval_rpn returns a result only when exactly one list is left on the
\* stack once the whole operation sequence is consumed; with none left (the
\* empty query, "()") or two or more (two bare terms) it raises the
\* malformed-query error.
C6_ExactlyOneSetRemains ==
    (Evaluated /\ StarvedAt(rpn.out, 1, 0) = 0) =>
        /\ ri = Len(rpn.out)
        /\ Len(ev.st) = SetsLeft(rpn.out)
        /\ IF SetsLeft(rpn.out) = 1
           THEN /\ qpc = "print"
                /\ ev.err = None
                /\ found = Some(<<Prefix(ev.st[1], topk), Len(ev.st[1])>>)
           ELSE /\ qpc = "except"
                /\ ev.err = Some("Bad query")
                /\ found = None
        /\ (toks = <<>> \/ toks = <<"(", ")">>) => SetsLeft(rpn.out) = 0
        /\ (Len(toks) = 2 /\ IsTerm(toks[1]) /\ IsTerm(toks[2]))
              => SetsLeft(rpn.out) = 2

\* Two bare terms.
C6_Witness ==
    /\ qpc = "except"
    /\ query = "ocean ship"
    /\ Len(ev.st) = 2
    /\ ev.err = Some("Bad query")

\* C7: a query term absent from the dictionary is no error: eval_rpn pushes
\* the empty list for it, so for a known term x and an unknown term u,
\* "x AND u" has no hits, "x OR u" has P(x), and "NOT u" has every id of
\* [0, n_docs).
C7_UnknownTermIsEmpty ==
    \A x \in DOMAIN term_dict, u \in {"ocean", "ship"} \ DOMAIN term_dict :
        /\ (ri > 0 /\ rpn.out[ri] = u)
              => /\ qpc \in {"eval_rpn", "print"} \/ ev.err = Some("Bad query")
                 /\ Top(ev.st) = <<>>
        /\ Evaluated =>
              /\ toks = <<x, "AND", u>> => qpc = "print" /\ WholeResult /\ Hits = <<>>
              /\ toks = <<x, "OR", u>> => qpc = "print" /\ WholeResult /\ Hits = P(x)
              /\ toks = <<"NOT", u>> =>
                    /\ qpc = "print" /\ WholeResult
                    /\ Range(Hits) = Universe

\* "ship" is in no document, and "ocean OR ship" has the hits of "ocean".
C7_Witness ==
    /\ qpc = "print"
    /\ "ship" \notin DOMAIN term_dict
    /\ query = "ocean OR ship"
    /\ Hits = <<0, 1>>

\* C8: for strictly ascending A and B, AND (op_and, and the web front end's
\* intersect_sorted) returns exactly the ids present in both, in ascending
\* order, and the result is the same with the arguments swapped.
C8_AndIsIntersection ==
    /\ opPc = "op_and" =>
          /\ IsStrictlyAscending(opRes)
          /\ Range(opRes) = Range(opA) \cap Range(opB)
          /\ op_and(opB, opA) = opRes
    /\ opPc = "intersect_sorted" =>
          /\ IsStrictlyAscending(opRes)
          /\ Range(opRes) = Range(opA) \cap Range(opB)
          /\ intersect_sorted(opB, opA) = opRes

C8_Witness ==
    /\ opPc = "op_and"
    /\ opA = <<0, 1, 3>>
    /\ opB = <<1, 2, 3>>
    /\ opRes = <<1, 3>>

\* C9: for strictly ascending A and B, OR (op_or, and the web front end's
\* union_sorted) returns exactly the ids present in A or in B, each once, in
\* ascending order, and the result is the same with the arguments swapped.
C9_OrIsUnion ==
    /\ opPc = "op_or" =>
          /\ IsStrictlyAscending(opRes)
          /\ Range(opRes) = Range(opA) \cup Range(opB)
          /\ op_or(opB, opA) = opRes
    /\ opPc = "union_sorted" =>
          /\ IsStrictlyAscending(opRes)
          /\ Range(opRes) = Range(opA) \cup Range(opB)
          /\ union_sorted(opB, opA) = opRes

C9_Witness ==
    /\ opPc = "op_or"
    /\ opA = <<0, 1, 3>>
    /\ opB = <<1, 2>>
    /\ opRes = <<0, 1, 2, 3>>

\* C10: for strictly ascending A within [0, n_docs), NOT (op_not, and the web
\* front end's complement_sorted) returns exactly the ids of [0, n_docs) that
\* are not in A, and NOT of that result is A again.
C10_NotIsComplement ==
    Range(opA) \subseteq 0..(opN - 1) =>
        /\ opPc \in {"op_not", "complement_sorted"} =>
              /\ IsStrictlyAscending(opRes)
              /\ Range(opRes) = (0..(opN - 1)) \ Range(opA)
        /\ opPc \in {"op_not_twice", "complement_sorted_twice"} => opRes = opA

C10_Witness ==
    /\ opPc = "op_not_twice"
    /\ opN = 4
    /\ opA = <<1, 3>>
    /\ opRes = <<1, 3>>

\* ------------------------------------------------------------------------
\* The postings file.
\* ------------------------------------------------------------------------

\* The ids of the documents the sorted pair file names for the term.
IdsOf(term) ==
    {ParseInt(SplitTab(sorted_file[k])[2]) :
        k \in {j \in 1..Len(sorted_file) : SplitTab(sorted_file[j])[1] = term}}

\* C11: the postings codec round-trips: for every strictly increasing
\* sequence of doc ids (one id; ids such as 300 and 70000), the bytes flush
\* wrote, read back by read_postings through the dictionary row's offset
\* and length, decode to exactly that sequence.
C11_CodecRoundTrips ==
    bpc = "done" =>
        \A term \in CodecTerms :
            /\ IsStrictlyAscending(Decoded(term))
            /\ Range(Decoded(term)) = IdsOf(term)
            /\ Len(Decoded(term)) = Cardinality(IdsOf(term))

\* Three ids of one, two and three bytes, read back from offset 4.
C11_Witness ==
    /\ bpc = "done"
    /\ Decoded("ocean") = <<300>>
    /\ Decoded("ship") = <<1, 300, 70000>>
    /\ load_dict(dict_tsv)["ship"].off = 4

\* The variable-length encoding of v: 7 payload bits per byte, the least
\* significant group first, the high bit set iff another byte follows.
RECURSIVE Varint(_)
Varint(v) ==
    IF v < 128 THEN <<v>> ELSE <<128 + (v % 128)>> \o Varint(v \div 128)

\* The encodings of the gaps of the ascending list ids, the first gap taken
\* from last.
RECURSIVE VarintGaps(_, _)
VarintGaps(ids, last) ==
    IF ids = <<>> THEN <<>>
    ELSE Varint(Head(ids) - last) \o VarintGaps(Tail(ids), Head(ids))

\* The ids of S, ascending.
Ascending(S) == SortInts(CHOOSE o \in Orders(S) : TRUE)

\* C12: for each dictionary entry the build wrote, the bytes in
\* [byte_offset, byte_offset + byte_length) of the postings file are the
\* variable-length encodings of the gaps of the term's ascending id list.
C12_PostingsAreVarintGaps ==
    bpc = "done" =>
        \A term \in DOMAIN load_dict(dict_tsv) :
            PostingsData(term, load_dict(dict_tsv), postings_bin)
                = VarintGaps(Ascending(IdsOf(term)), 0)

\* ------------------------------------------------------------------------
\* End to end.
\* ------------------------------------------------------------------------

\* search has returned or raised for the query q.
Answered(q) == qpc \in {"print", "except"} /\ query = q

\* C13: over the corpus doc0 = "ocean pollution", doc1 = "ocean biology",
\* doc2 = "ship war", built and then queried, "ocean AND pollution" returns
\* the hits {0}, "ocean OR ship" returns {0, 1, 2}, and "ship AND NOT war"
\* returns no hits.
C13_EndToEnd ==
    /\ Answered("ocean AND pollution") =>
          qpc = "print" /\ found = Some(<< <<0>>, 1 >>)
    /\ Answered("ocean OR ship") =>
          qpc = "print" /\ found = Some(<< <<0, 1, 2>>, 3 >>)
    /\ Answered("ship AND NOT war") =>
          qpc = "print" /\ found = Some(<< <<>>, 0 >>)

\* "ocean AND pollution" has found document 0 through the stem "pollu".
C13_Witness ==
    /\ qpc = "print"
    /\ docs = ScenarioCorpus
    /\ query = "ocean AND pollution"
    /\ toks = <<"ocean", "AND", "pollu">>
    /\ Hits = <<0>>

\* ------------------------------------------------------------------------
\* The corpus and its document ids.
\* ------------------------------------------------------------------------

\* The files list_docs looks for.
Discovered == Globbed("wikipedia_en") \cup Globbed("marinelink")

\* One run's list_docs result, and the index one run builds from it.
ReferenceDocs ==
    list_docs(CHOOSE o \in Orders(Globbed("wikipedia_en")) : TRUE,
              CHOOSE o \in Orders(Globbed("marinelink")) : TRUE)

ReferenceBuild == BuildIndex(ReferenceDocs, use_stemming, min_token_len, max_docs)

\* C14: two builds over the same corpus produce the same document table,
\* the same dictionary rows and the same posting lists, whatever the order
\* in which glob enumerates the files and in which a document's term set is
\* iterated: every build ends with the files of the reference build.
C14_RebuildIsIdentical ==
    /\ bpc # "glob" => docs = ReferenceDocs
    /\ bpc = "done" =>
          /\ docs_tsv = ReferenceBuild.docs_tsv
          /\ dict_tsv = ReferenceBuild.dict_tsv
          /\ postings_bin = ReferenceBuild.postings_bin

\* A finished build of three documents whose pairs were written in another
\* order than the reference build's.
C14_Witness ==
    /\ bpc = "done"
    /\ Cardinality(Globbed("wikipedia_en")) = 2
    /\ Len(docs_tsv) = 3
    /\ term_doc # PairLinesFrom(docs, 0, use_stemming, min_token_len, max_docs)
    /\ Len(dict_tsv) >= 3

\* The number of discovered files whose path is below f's.
Rank(f) == Cardinality({g \in Discovered : StrLess(g.fp, f.fp)})

FileAt(k) == CHOOSE f \in Discovered : Rank(f) = k

\* The documents a build uses: all that were discovered, or --max_docs of
\* them.
UsedCount ==
    IF max_docs # 0 /\ max_docs < Cardinality(Discovered)
    THEN max_docs
    ELSE Cardinality(Discovered)

\* C19: document ids are dense and positional: the build gives the ids
\* 0..N-1 to the discovered documents in ascending order of path, the k-th
\* row (0-based) of the document table carries doc_id k, and the same k is
\* written in that document's (term, doc_id) pairs.
C19_DocIdsDenseAndPositional ==
    /\ bpc # "glob" =>
          /\ Len(docs) = Cardinality(Discovered)
          /\ \A k \in 1..Len(docs) : docs[k] = FileAt(k - 1)
    /\ bpc \in {"open", "assemble", "done"} =>
          /\ Len(docs_tsv) = UsedCount
          /\ \A k \in 1..Len(docs_tsv) :
                SplitTab2(docs_tsv[k])
                    = <<Str(k - 1), FileAt(k - 1).src, FileAt(k - 1).fp>>
    /\ \A j \in 1..Len(term_doc) :
          LET term == SplitTab(term_doc[j])[1]
              doc_id == ParseInt(SplitTab(term_doc[j])[2])
          IN /\ doc_id < UsedCount
             /\ term \in DocTerms(FileAt(doc_id).text, use_stemming, min_token_len)
    /\ bpc \notin {"glob", "main", "extract", "exit"} =>
          \A k \in 0..(UsedCount - 1) :
              \A term \in DocTerms(FileAt(k).text, use_stemming, min_token_len) :
                  PairLine(term, k) \in Range(term_doc)

\* The file created first has the greatest path, and document id 2.
C19_Witness ==
    /\ bpc = "done"
    /\ docs_tsv = <<DocsLine(0, "marinelink", "data_text/marinelink/8.txt"),
                    DocsLine(1, "wikipedia_en", "data_text/wikipedia_en/7.txt"),
                    DocsLine(2, "wikipedia_en", "data_text/wikipedia_en/9.txt")>>
    /\ PairLine("ship", 2) \in Range(term_doc)
    /\ PairLine("ocean", 0) \in Range(term_doc)

\* ------------------------------------------------------------------------
\* The result limit.
\* ------------------------------------------------------------------------

\* C15: for every query that evaluates and every --topk the entry point
\* accepts, search returns no more than topk ids, they are the smallest ids
\* of the full ascending hit list in order, and the total it returns is the
\* length of the full list.
C15_TopKBoundsResult ==
    qpc = "print" =>
        /\ Len(Hits) <= topk
        /\ Hits = SubSeq(ev.st[1], 1, Len(Hits))
        /\ found[1][2] = Len(ev.st[1])

\* ------------------------------------------------------------------------
\* A failing query.
\* ------------------------------------------------------------------------

\* What search returns for q over the loaded index when nothing ran before.
Alone(q) == search(q, term_dict, postings_bin, n_docs, topk)

\* C16: a query that fails leaves the loaded dictionary, the document table
\* and the postings file unchanged, the interactive loop goes back to its
\* prompt, and every query answered after a failure returns what it returns
\* when it is the only query issued over that index.
C16_FailedQueryIsLocal ==
    /\ []((failed /\ qpc = "print") => found = Alone(query).found)
    /\ []((failed /\ qpc = "except") =>
              Alone(query).err \in {rpn.err, ev.err} \ {None})
    /\ [][qpc = "except" =>
              /\ UNCHANGED <<term_dict, loaded_docs, n_docs>>
              /\ UNCHANGED <<docs_tsv, dict_tsv, postings_bin>>
              /\ interactive => qpc' = "prompt" /\ NoSearch']_vars

C16_Witness ==
    /\ failed /\ interactive
    /\ qpc = "print" /\ query = "ocean OR ship" /\ Len(Hits) > 0

\* ------------------------------------------------------------------------
\* Concurrent queries.
\* ------------------------------------------------------------------------

\* Both threads are inside search at once.
Overlapping == \A w \in Workers : calls[w].pc # "idle"

\* C17: under every interleaving of the steps of two calls of search over
\* one loaded index, a call that has returned or raised has the result the
\* query has when run alone, and no step changes the dictionary, the
\* document table or the postings file.
C17_ConcurrentQueriesAreIsolated ==
    /\ [](\A w \in Workers :
             calls[w].pc \in {"returned", "raised"} =>
                 calls[w].res = Alone(calls[w].query))
    /\ [][UNCHANGED <<term_dict, loaded_docs, n_docs, postings_bin>>]_vars

C17_Witness ==
    /\ Overlapping
    /\ calls["a"].pc = "returned" /\ calls["a"].query = "ocean AND ship"
    /\ calls["a"].res.found = Some(<< <<0>>, 1 >>)
    /\ calls["b"].pc = "eval_rpn" /\ calls["b"].query = "NOT ship"
    /\ calls["b"].ev.st # <<>>

\* ------------------------------------------------------------------------
\* A corrupted index.
\* ------------------------------------------------------------------------

\* The dictionary entry of the term points outside the postings file.
PointsOutside(term) ==
    /\ term \in DOMAIN term_dict
    /\ term_dict[term].off + term_dict[term].nb > Len(postings_bin)

\* C18: once eval_rpn has read the postings of a term whose dictionary
\* entry points outside the postings file, the query is in error: no
\* shorter or empty list is pushed in place of the term's postings.
C18_CorruptionAbortsQuery ==
    (qpc \in {"eval_rpn", "except", "print"} /\ ri > 0
        /\ PointsOutside(rpn.out[ri]))
    => ev.err # None

\* ------------------------------------------------------------------------
\* Generations of the index.
\* ------------------------------------------------------------------------

\* The three files of the index directory.
IndexFiles ==
    [docs_tsv |-> docs_tsv, dict_tsv |-> dict_tsv, postings_bin |-> postings_bin]

\* C20: whenever no build is running (before the run, after it ended and
\* after it aborted), docs.tsv, dict.tsv and postings.bin are all three the
\* previous build's or all three the new build's.
C20_SingleGeneration ==
    bpc \in {"main", "exit", "done", "aborted"} =>
        \/ IndexFiles = PreviousIndex
        \/ IndexFiles = BuildIndex(docs, use_stemming, min_token_len, max_docs)

\* ------------------------------------------------------------------------
\* An empty corpus.
\* ------------------------------------------------------------------------

\* C21: when list_docs finds no documents the run ends at once with the
\* error: it never reaches the extractor, the sort, the document table or
\* the assembler, no file has any content, and no step follows the exit.
C21_EmptyCorpusAborts ==
    /\ [](docs = <<>> =>
            /\ bpc \in {"glob", "main", "exit"}
            /\ term_doc = <<>> /\ sorted_file = <<>>
            /\ docs_tsv = <<>> /\ dict_tsv = <<>> /\ postings_bin = <<>>)
    /\ [](bpc = "exit" => docs = <<>>)
    /\ [][bpc # "exit"]_vars

C21_Witness ==
    /\ bpc = "exit" /\ input_dir = {StrayFile} /\ docs = <<>>
    /\ term_doc = <<>> /\ docs_tsv = <<>>

\* ------------------------------------------------------------------------
\* The lists on the evaluator's stack.
\* ------------------------------------------------------------------------

\* A list of document ids of the loaded index: strictly ascending, so
\* without duplicates, and inside [0, n_docs).
IsIdList(l) == IsStrictlyAscending(l) /\ Range(l) \subseteq Universe

\* C22: over an index a build wrote, every list eval_rpn has on its stack
\* while no error is raised, and the hit list search returns, is strictly
\* ascending, duplicate-free and contained in [0, n_docs).
C22_StackListsAreIdLists ==
    /\ \A term \in DOMAIN term_dict : IsIdList(P(term))
    /\ ev.err = None => \A k \in 1..Len(ev.st) : IsIdList(ev.st[k])
    /\ qpc = "print" => IsIdList(Hits) /\ IsIdList(ev.st[1])

C22_Witness ==
    /\ qpc = "print" /\ query = "ocean OR ship"
    /\ n_docs = 2 /\ P("ocean") = <<0, 1>> /\ P("ship") = <<1>>
    /\ Hits = <<0, 1>>

\* ------------------------------------------------------------------------
\* The web front end and the query evaluator.
\* ------------------------------------------------------------------------

\* What boolsearch.search returns for q over the files of the index
\* directory, with a limit that cuts nothing.
SearchOverFiles(q) ==
    search(q, load_dict(dict_tsv), postings_bin, Len(load_docs(docs_tsv)),
           Len(load_docs(docs_tsv)))

\* C23: for every index a build wrote and every query on which
\* boolsearch.search succeeds, the handler of web.py answers the request
\* and its hit list is the hit list of search.
C23_WebAgreesWithSearch ==
    (wpc \in {"rendered", "failed"} /\ web_q # ""
        /\ SearchOverFiles(web_q).err = None)
    => /\ wpc = "rendered"
       /\ web_hits = SearchOverFiles(web_q).found[1][1]

\* ------------------------------------------------------------------------
\* The dictionary and the postings file.
\* ------------------------------------------------------------------------

\* The k-th row of dict.tsv: term, document_frequency, byte_offset,
\* byte_length.
DictRow(k) ==
    LET parts == SplitTab(dict_tsv[k])
    IN [term |-> parts[1], df |-> ParseInt(parts[2]),
        off |-> ParseInt(parts[3]), nb |-> ParseInt(parts[4])]

RECURSIVE BytesBefore(_)
BytesBefore(k) == IF k <= 1 THEN 0 ELSE BytesBefore(k - 1) + DictRow(k - 1).nb

\* The ids the blob of the k-th row holds.
BlobIds(k) ==
    LET data == SubSeq(postings_bin, DictRow(k).off + 1,
                       DictRow(k).off + DictRow(k).nb)
    IN [j \in 1..(Len(data) \div 4) |-> Unpack(SubSeq(data, 4 * j - 3, 4 * j))]

\* The documents of the term among the lines the assembler has consumed.
ConsumedDocs(term) ==
    {ParseInt(SplitTab(sorted_file[j])[2]) :
        j \in {i \in 1..li : SplitTab(sorted_file[i])[1] = term}}

\* C24: after every flush of the assembler, the rows of the dictionary tile
\* the postings file: each row's offset is the sum of the lengths of the
\* rows before it, its length is the size of its blob, its frequency is the
\* number of ids in the blob and at least 1, offsets strictly increase, and
\* the blobs leave no byte of the file uncovered.
C24_DictionaryTilesPostings ==
    bpc \in {"assemble", "done"} =>
        /\ \A k \in 1..Len(dict_tsv) :
              /\ DictRow(k).off = BytesBefore(k)
              /\ DictRow(k).off + DictRow(k).nb <= Len(postings_bin)
              /\ DictRow(k).df >= 1
              /\ Len(BlobIds(k)) = DictRow(k).df
              /\ DictRow(k).nb = Len(PackAll(BlobIds(k)))
              /\ Range(BlobIds(k)) = ConsumedDocs(DictRow(k).term)
              /\ k > 1 => DictRow(k - 1).off < DictRow(k).off
        /\ BytesBefore(Len(dict_tsv) + 1) = Len(postings_bin)

C24_Witness ==
    /\ bpc = "done"
    /\ dict_tsv = <<DictLine("ocean", 2, 0, 8), DictLine("ship", 3, 8, 12)>>
    /\ Len(postings_bin) = 20
    /\ BlobIds(2) = <<1, 300, 70000>>

\* The terms of the pair file the extractor wrote.
PairTerms == {SplitTab(term_doc[k])[1] : k \in 1..Len(term_doc)}

Sorted == bpc \in {"docs_table", "open", "assemble", "done"}

PairTerm(line) == SplitTab(line)[1]
PairDoc(line) == ParseInt(SplitTab(line)[2])

\* How many times the line x is in the file.
Count(file, x) == Cardinality({k \in 1..Len(file) : file[k] = x})

KeptTokens(text) == {t \in Range(tokenize(text)) : Len(t) >= min_token_len}

\* The terms of the text: its kept tokens, normalized.
TermsOf(text) ==
    {IF use_stemming THEN simple_stem_en(t) ELSE t : t \in KeptTokens(text)}

\* C27: for every document the extractor has read, the pair file holds
\* exactly one line per distinct term of the document (its tokens, without
\* those shorter than the minimum length, normalized), and no other line;
\* total_pairs is the number of lines written.
C27_OnePairPerDistinctTerm ==
    /\ total_pairs = Len(term_doc)
    /\ \A k \in 1..Len(term_doc) :
          /\ PairDoc(term_doc[k]) < di
          /\ PairTerm(term_doc[k]) \in TermsOf(docs[PairDoc(term_doc[k]) + 1].text)
          /\ Count(term_doc, term_doc[k]) = 1
    /\ \A d \in 0..(di - 1) :
          \A term \in TermsOf(docs[d + 1].text) :
              Count(term_doc, PairLine(term, d)) = 1

\* "Oceans, ocean" with stemming: two tokens, one term, one line.
C27_Witness ==
    /\ bpc = "sort" /\ use_stemming /\ di >= 1
    /\ \E d \in 0..(di - 1) :
          /\ docs[d + 1].text = "Oceans, ocean"
          /\ tokenize(docs[d + 1].text) = <<"oceans", "ocean">>
          /\ Count(term_doc, PairLine("ocean", d)) = 1
          /\ Count(term_doc, PairLine("oceans", d)) = 0

\* ------------------------------------------------------------------------
\* Documents without terms.
\* ------------------------------------------------------------------------

\* The ids the query returns over the files of the index directory.
HitsOverFiles(q) == Range(SearchOverFiles(q).found[1][1])

\* C28: after a build, every document has the row of its position in the
\* document table and is in the posting lists of its own terms only; a
\* document without terms is in no posting list, counts in n_docs, and is
\* returned by a NOT query.
C28_EmptyDocumentKeepsItsId ==
    bpc = "done" =>
        LET table == load_docs(docs_tsv)
            lists == [term \in DOMAIN load_dict(dict_tsv) |-> Range(Decoded(term))]
            notOcean == HitsOverFiles("NOT ocean")
            either == HitsOverFiles("ocean OR ship")
        IN /\ Len(table) = Len(docs)
           /\ \A d \in 0..(Len(docs) - 1) :
                 LET terms == TermsOf(docs[d + 1].text)
                 IN /\ SplitTab2(docs_tsv[d + 1])
                          = <<Str(d), docs[d + 1].src, docs[d + 1].fp>>
                    /\ \A term \in DOMAIN lists :
                          d \in lists[term] <=> term \in terms
                    /\ terms = {} => d \in notOcean /\ d \notin either

\* Document 0 has no terms, and document 1 after it is found under id 1.
C28_Witness ==
    /\ bpc = "done"
    /\ docs[1].text = "" /\ docs[2].text = "ocean"
    /\ Decoded("ocean") = <<1>>
    /\ HitsOverFiles("NOT ocean") = 0..(NumDocs - 1) \ {1}

\* ------------------------------------------------------------------------
\* The query lexer.
\* ------------------------------------------------------------------------

\* C29: q_tokenize yields one token for each word the tokenizer's word rule
\* finds in the query: the operator for a word that is and, or, not in any
\* letter case, and for every other word, such as order, android or notes,
\* the one term it normalizes to.
C29_LexerSplitsAtWords ==
    query # "" =>
        LET words == tokenize(query)
        IN /\ Len(toks) = Len(words)
           /\ \A k \in 1..Len(words) :
                 toks[k] = IF words[k] \in {"and", "or", "not"}
                           THEN Upper(words[k])
                           ELSE simple_stem_en(words[k])

\* ------------------------------------------------------------------------
\* The vocabulary of queries and index.
\* ------------------------------------------------------------------------

\* C30: whatever the build configuration, when search has answered the
\* query w, every document that has w among its tokens, with w not shorter
\* than the minimum length and not an operator keyword, is among the hits.
C30_QueryFindsItsDocuments ==
    (qpc \in {"print", "except"} /\ query \notin {"and", "or", "not"}
        /\ Len(query) >= min_token_len)
    => \A d \in 0..(Len(docs) - 1) :
          query \in Range(tokenize(docs[d + 1].text))
              => qpc = "print" /\ d \in Range(ev.st[1])

\* ------------------------------------------------------------------------
\* NOT after NOT.
\* ------------------------------------------------------------------------

\* C31: when to_rpn reads a NOT right after a NOT, the earlier NOT stays on
\* the operator stack under the later one, so "NOT NOT a" becomes
\* a NOT NOT and returns the posting list of a.
C31_NotIsRightBinding ==
    /\ (qpc = "to_rpn" /\ ti >= 2 /\ toks[ti] = "NOT" /\ toks[ti - 1] = "NOT")
          => /\ Len(rpn.stack) >= 2
             /\ SubSeq(rpn.stack, Len(rpn.stack) - 1, Len(rpn.stack))
                   = <<"NOT", "NOT">>
    /\ (Evaluated /\ Len(toks) = 3 /\ toks[1] = "NOT" /\ toks[2] = "NOT"
            /\ IsTerm(toks[3]))
          => /\ rpn.out = <<toks[3], "NOT", "NOT">>
             /\ qpc = "print"
             /\ WholeResult
             /\ Hits = P(toks[3])

C31_Witness ==
    /\ qpc = "print" /\ query = "NOT NOT ocean"
    /\ n_docs = 2 /\ P("ocean") = <<0, 1>>
    /\ Hits = <<0, 1>>

\* ------------------------------------------------------------------------
\* Posting lists and the document table.
\* ------------------------------------------------------------------------

\* C32: after every build, capped by --max_docs or not, every doc id of
\* every posting list is smaller than the number of rows of the document
\* table as boolsearch loads it, so docs[d] is in range for every hit.
C32_PostingsWithinDocsTable ==
    bpc = "done" =>
        LET table == load_docs(docs_tsv)
        IN \A term \in DOMAIN load_dict(dict_tsv) :
              \A k \in 1..Len(Decoded(term)) :
                  Decoded(term)[k] \in 0..(Len(table) - 1)

\* A build capped at one document out of three.
C32_Witness ==
    /\ bpc = "done" /\ max_docs = 1 /\ Len(docs) = 3
    /\ Len(load_docs(docs_tsv)) = 1
    /\ load_dict(dict_tsv) # <<>>
    /\ \A term \in DOMAIN load_dict(dict_tsv) : Decoded(term) = <<0>>

\* ------------------------------------------------------------------------
\* The two evaluators over the same posting lists.  One postings file holds
\* every list twice: first as the build writes it, for boolsearch.py's
\* dictionary, then as gaps in variable-length bytes, for web.py's.
\* ------------------------------------------------------------------------

MaxRpnLen == 3

EvalTerms == {"ocean", "ship"}

EvalLists == {<<>>, <<0>>, <<1, 2>>, <<0, 1, 2>>}

EvalCorpus == <<DocFile(0, ""), DocFile(1, ""), DocFile(2, "")>>

\* The operation sequences, as boolsearch.py's to_rpn returns them.
RpnSeqs ==
    UNION {[1..len -> EvalTerms \cup {"AND", "OR", "NOT"}] : len \in 1..MaxRpnLen}

\* The same sequence as web.py's to_rpn returns it.
WebSeq(seq) ==
    [k \in 1..Len(seq) |->
        IF seq[k] = "AND" THEN <<TT_AND, "">>
        ELSE IF seq[k] = "OR" THEN <<TT_OR, "">>
        ELSE IF seq[k] = "NOT" THEN <<TT_NOT, "">>
        ELSE <<TT_TERM, seq[k]>>]

\* The pair lines of the lists, and the index the assembler makes of them.
ListLines(lists) ==
    SortLines([k \in 1..Len(lists["ocean"]) |-> PairLine("ocean", lists["ocean"][k])]
        \o [k \in 1..Len(lists["ship"]) |-> PairLine("ship", lists["ship"][k])])

\* web.py's dictionary for the lists written from byte position start.
WebDict(lists, start) ==
    [t \in {u \in EvalTerms : lists[u] # <<>>} |->
        [off |-> IF t = "ocean" THEN start
                 ELSE start + Len(VarintGaps(lists["ocean"], 0)),
         df |-> Len(lists[t])]]

InitEval ==
    /\ \E lists \in [EvalTerms -> EvalLists] :
          LET A == build_inverted_from_sorted(ListLines(lists))
          IN /\ dict_tsv = A.dic
             /\ postings_bin = (A.post \o VarintGaps(lists["ocean"], 0))
                                   \o VarintGaps(lists["ship"], 0)
             /\ term_dict = load_dict(A.dic)
             /\ web_term_dict = WebDict(lists, Len(A.post))
    /\ input_dir = Range(EvalCorpus) /\ docs = EvalCorpus
    /\ use_stemming = TRUE /\ min_token_len = 2 /\ max_docs = 0
    /\ docs_tsv = write_docs_table(EvalCorpus, 0)
    /\ loaded_docs = load_docs(docs_tsv)
    /\ n_docs = Len(EvalCorpus)
    /\ web_docs = web_load_docs(docs_tsv)
    /\ web_n_docs = Len(EvalCorpus)
    /\ topk = DefaultTopK /\ interactive = FALSE /\ failed = FALSE
    /\ SearchIdle
    /\ web_q = "" /\ web_hits = <<>> /\ wpc = "serving"
    /\ LabIdle /\ OpsIdle /\ BuildIdle

notEval ==
    <<opsVars, cfgVars, indexVars, buildVars, loadedVars, query, toks, ti, ri,
      found, qpc, calls, web_term_dict, web_docs, web_n_docs, web_q, labVars>>

\* Both evaluators are applied to one operation sequence.
ApplyEvalRpn(seq) ==
    /\ wpc = "serving"
    /\ rpn' = [RpnStart EXCEPT !.out = seq]
    /\ ev' = eval_rpn(seq, term_dict, postings_bin, n_docs)
    /\ LET r == web_eval_rpn(WebSeq(seq), web_term_dict, postings_bin, web_n_docs)
       IN /\ web_hits' = r.hits
          /\ wpc' = IF r.eof THEN "failed" ELSE "rendered"
    /\ UNCHANGED notEval

ForgetEval ==
    /\ wpc \in {"rendered", "failed"}
    /\ rpn' = RpnStart /\ ev' = EvalStart
    /\ web_hits' = <<>> /\ wpc' = "serving"
    /\ UNCHANGED notEval

NextEval ==
    \/ \E seq \in RpnSeqs : ApplyEvalRpn(seq)
    \/ ForgetEval

SpecEval == InitEval /\ [][NextEval]_vars

MaxTime == 2

MaxFrontier == 2

retry_in_seconds == 3600

Urls == {"a", "b"}

Depths == {0, 1}

Source == "wiki"

Min2(a, b) == IF a <= b THEN a ELSE b

Max2(a, b) == IF a >= b THEN a ELSE b

Row(url, source, next_fetch_at, depth, err) ==
    [url |-> url, source |-> source, next_fetch_at |-> next_fetch_at,
     depth |-> depth, last_error |-> err]

Store == [rows |-> frontier, size |-> frontier_size]

\* Line 81: the counter is read from the table when the store is opened.
OpenStore(rows) == [rows |-> rows, size |-> Cardinality(rows)]

frontier_exists(rows, url) == \E r \in rows : r.url = url

upsert_frontier_always_counts(S, url, source, next_fetch_at, depth, maxf) ==
    LET is_new == ~frontier_exists(S.rows, url)
    IN  IF is_new /\ maxf > 0 /\ S.size >= maxf THEN S
        ELSE [rows |->
                IF is_new
                THEN S.rows \cup {Row(url, source, next_fetch_at, depth, None)}
                ELSE {IF r.url = url
                      THEN [r EXCEPT !.next_fetch_at = Min2(@, next_fetch_at),
                                     !.source = source]
                      ELSE r : r \in S.rows},
              size |-> S.size + 1]

\* Lines 97-115.
upsert_frontier(S, url, source, next_fetch_at, depth, maxf) ==
    LET is_new == ~frontier_exists(S.rows, url)
    IN  IF is_new /\ maxf > 0 /\ S.size >= maxf THEN S
        ELSE [rows |->
                IF is_new
                THEN S.rows \cup {Row(url, source, next_fetch_at, depth, None)}
                ELSE {IF r.url = url
                      THEN [r EXCEPT !.next_fetch_at = Min2(@, next_fetch_at),
                                     !.source = source]
                      ELSE r : r \in S.rows},
              size |-> IF is_new THEN S.size + 1 ELSE S.size]

\* Lines 118-125: ORDER BY next_fetch_at ASC LIMIT 1 returns one of the
\* rows no other row precedes; which one among equals is not specified.
FirstRows(rows) ==
    {r \in rows : \A o \in rows : r.next_fetch_at <= o.next_fetch_at}

\* Lines 129-130: the store after row r has been popped.
pop_next_url(S, r) ==
    [rows |-> {o \in S.rows : o.url # r.url}, size |-> Max2(0, S.size - 1)]

\* Line 132: what pop_next_url returns for row r.
Popped(r) ==
    [url |-> r.url, source |-> r.source, depth |-> r.depth,
     next_fetch_at |-> r.next_fetch_at]

\* Lines 134-151, with both reads of the time giving now.
set_frontier_error(S, url, source, depth, err, retry, now) ==
    LET is_new == ~frontier_exists(S.rows, url)
        next_fetch == now + retry
    IN  [rows |->
            IF is_new
            THEN S.rows \cup {Row(url, source, next_fetch, depth, Some(err))}
            ELSE {IF r.url = url
                  THEN [r EXCEPT !.next_fetch_at = next_fetch,
                                 !.last_error = Some(err)]
                  ELSE r : r \in S.rows},
         size |-> IF is_new THEN S.size + 1 ELSE S.size]

\* ------------------------------------------------------------------------
\* The three frontier methods called in any order on one store that was
\* opened over a table of at most max_frontier rows.
\* ------------------------------------------------------------------------

notStore ==
    <<opsVars, cfgVars, indexVars, buildVars, loadedVars, searchVars, webVars,
      dlVars, recrawl_after, max_pages, ts, outcome, processed, fetched>>

\* The tables a crawl can have left behind.
Tables(urls) ==
    {{Row(u, Source, 0, 0, None) : u \in us} : us \in SUBSET urls}

InitStore ==
    /\ max_frontier \in 0..MaxFrontier
    /\ \E rows \in Tables(Urls) :
          /\ max_frontier > 0 => Cardinality(rows) <= max_frontier
          /\ frontier = OpenStore(rows).rows
          /\ frontier_size = OpenStore(rows).size
    /\ clock = 0 /\ item = None /\ rpc = "store"
    /\ recrawl_after = 0 /\ max_pages = 0 /\ ts = 0 /\ outcome = "none"
    /\ processed = 0 /\ fetched = <<>>
    /\ DownloadIdle
    /\ OpsIdle /\ NoIndex /\ BuildIdle /\ NothingLoaded /\ SearchIdle /\ WebIdle

SetStore(S) ==
    /\ frontier' = S.rows
    /\ frontier_size' = S.size

StoreUpsert(url, next_fetch_at, depth) ==
    /\ rpc = "store"
    /\ SetStore(upsert_frontier(Store, url, Source, next_fetch_at, depth,
                                max_frontier))
    /\ item' = None
    /\ UNCHANGED <<max_frontier, clock, rpc, notStore>>

StorePop ==
    /\ rpc = "store"
    /\ IF frontier = {}
       THEN /\ item' = None
            /\ UNCHANGED <<frontier, frontier_size>>
       ELSE \E r \in FirstRows(frontier) :
               /\ SetStore(pop_next_url(Store, r))
               /\ item' = Some(Popped(r))
    /\ UNCHANGED <<max_frontier, clock, rpc, notStore>>

StoreSetError(url, depth) ==
    /\ rpc = "store"
    /\ SetStore(set_frontier_error(Store, url, Source, depth, "err",
                                   retry_in_seconds, clock))
    /\ item' = None
    /\ UNCHANGED <<max_frontier, clock, rpc, notStore>>

\* A second passes.
Tick ==
    /\ rpc = "store"
    /\ clock < MaxTime
    /\ clock' = clock + 1
    /\ UNCHANGED <<frontier, frontier_size, max_frontier, item, rpc, notStore>>

NextStore ==
    \/ \E url \in Urls, t \in 0..MaxTime, depth \in Depths :
          StoreUpsert(url, t, depth)
    \/ StorePop
    \/ \E url \in Urls, depth \in Depths : StoreSetError(url, depth)
    \/ Tick

SpecStore == InitStore /\ [][NextStore]_vars

\* C35: with max_frontier > 0 and a table that starts with at most
\* max_frontier rows, no sequence of upsert_frontier, pop_next_url and
\* set_frontier_error calls leaves more than max_frontier rows in it.
C35_FrontierWithinMax ==
    (rpc = "store" /\ max_frontier > 0) =>
        Cardinality(frontier) <= max_frontier

\* C36: after any sequence of the three calls on one store, frontier_size
\* is the number of rows of the frontier table.
C36_SizeIsRowCount ==
    rpc = "store" => frontier_size = Cardinality(frontier)

C36_Witness ==
    /\ rpc = "store"
    /\ max_frontier = 1
    /\ item # None
    /\ Cardinality(frontier) = 1
    /\ \E r \in frontier : r.last_error # None
    /\ frontier_size = 1

\* ------------------------------------------------------------------------
\* robot.py: run, over a store opened on a new database.  One source is
\* configured; Pages are the urls allowed(url, scfg) accepts, and every
\* url the model writes is one normalize_url leaves as it is.  What
\* fetch_url returns (an error, an unchanged page, or a changed page with
\* its links) is an input; the docs table, which run only writes and
\* reads back as prev_meta for fetch_url, is not kept.
\* ------------------------------------------------------------------------

MaxPages == 2

RecrawlAfter == 2

max_links_per_page == 1

Pages == Urls

Seeds == <<"a", "b">>

allowed(url) == url \in Pages

\* extract_links of a changed page: up to two hrefs, "x" is off the site.
LinkLists ==
    {<<>>} \cup {<<u>> : u \in Pages \cup {"x"}}
           \cup {<<u, v>> : u \in Pages \cup {"x"}, v \in Pages}

notRobot ==
    <<opsVars, cfgVars, indexVars, buildVars, loadedVars, searchVars, webVars,
      dlVars, max_frontier, recrawl_after, max_pages>>

InitRobot ==
    /\ max_frontier \in 0..MaxFrontier
    /\ recrawl_after = RecrawlAfter
    /\ max_pages = MaxPages
    /\ frontier = OpenStore({}).rows
    /\ frontier_size = OpenStore({}).size
    /\ clock = 0 /\ item = None /\ ts = 0 /\ outcome = "none"
    /\ processed = 0 /\ fetched = <<>> /\ rpc = "seed"
    /\ DownloadIdle
    /\ OpsIdle /\ NoIndex /\ BuildIdle /\ NothingLoaded /\ SearchIdle /\ WebIdle

\* Lines 294-298.
RECURSIVE SeedAll(_, _, _, _)
SeedAll(S, seeds, now, maxf) ==
    IF seeds = <<>> THEN S
    ELSE SeedAll(IF allowed(Head(seeds))
                 THEN upsert_frontier(S, Head(seeds), Source, now, 0, maxf)
                 ELSE S,
                 Tail(seeds), now, maxf)

Seed ==
    /\ rpc = "seed"
    /\ SetStore(SeedAll(Store, Seeds, clock, max_frontier))
    /\ rpc' = "loop"
    /\ UNCHANGED <<clock, item, ts, outcome, processed, fetched, notRobot>>

\* Lines 310-315: the loop test and the pop.
PopNext ==
    /\ rpc = "loop"
    /\ IF processed >= max_pages \/ frontier = {}
       THEN /\ rpc' = "done"
            /\ item' = None
            /\ UNCHANGED <<frontier, frontier_size>>
       ELSE \E r \in FirstRows(frontier) :
               /\ SetStore(pop_next_url(Store, r))
               /\ item' = Some(Popped(r))
               /\ rpc' = "popped"
    /\ outcome' = "none"
    /\ UNCHANGED <<clock, ts, processed, fetched, notRobot>>

Defer_at_depth_0 ==
    /\ rpc = "popped"
    /\ item[1].next_fetch_at > clock
    /\ clock < MaxTime
    /\ clock' = clock + Min2(item[1].next_fetch_at - clock, 1)
    /\ SetStore(upsert_frontier(Store, item[1].url, item[1].source,
                                item[1].next_fetch_at, 0, max_frontier))
    /\ outcome' = "notdue"
    /\ rpc' = "loop"
    /\ UNCHANGED <<item, ts, processed, fetched, notRobot>>

\* Lines 320-324: the url is not due; sleep and put it back.
Defer ==
    /\ rpc = "popped"
    /\ item[1].next_fetch_at > clock
    /\ clock < MaxTime
    /\ clock' = clock + Min2(item[1].next_fetch_at - clock, 1)
    /\ SetStore(upsert_frontier(Store, item[1].url, item[1].source,
                                item[1].next_fetch_at, item[1].depth,
                                max_frontier))
    /\ outcome' = "notdue"
    /\ rpc' = "loop"
    /\ UNCHANGED <<item, ts, processed, fetched, notRobot>>

\* Lines 349-362: the links of a changed page enter the frontier.
RECURSIVE AddLinks(_, _, _, _, _, _)
AddLinks(S, links, added, t, depth, maxf) ==
    IF links = <<>> \/ added >= max_links_per_page THEN S
    ELSE IF allowed(Head(links))
         THEN AddLinks(upsert_frontier(S, Head(links), Source, t, depth + 1,
                                       maxf),
                       Tail(links), added + 1, t, depth, maxf)
         ELSE AddLinks(S, Tail(links), added, t, depth, maxf)

FetchCall(url, at, next_fetch_at, ok) ==
    [url |-> url, at |-> at, next_fetch_at |-> next_fetch_at, ok |-> ok]

\* Lines 326-370: the url is due and fetch_url returns after d seconds.
FetchOk(changed, links, d) ==
    /\ rpc = "popped"
    /\ item[1].next_fetch_at <= clock
    /\ allowed(item[1].url)
    /\ clock + d <= MaxTime
    /\ clock' = clock + d
    /\ ts' = clock + d
    /\ fetched' = Append(fetched, FetchCall(item[1].url, clock,
                                       item[1].next_fetch_at, TRUE))
    /\ LET S1 == IF changed
                 THEN AddLinks(Store, links, 0, clock + d, item[1].depth,
                               max_frontier)
                 ELSE Store
       IN  SetStore(upsert_frontier(S1, item[1].url, item[1].source,
                                    clock + d + recrawl_after, 0,
                                    max_frontier))
    /\ processed' = processed + 1
    /\ outcome' = "ok"
    /\ rpc' = "loop"
    /\ UNCHANGED <<item, notRobot>>

\* Lines 333, 372-374: fetch_url raises after d seconds.
FetchFails(d) ==
    /\ rpc = "popped"
    /\ item[1].next_fetch_at <= clock
    /\ allowed(item[1].url)
    /\ clock + d <= MaxTime
    /\ clock' = clock + d
    /\ fetched' = Append(fetched, FetchCall(item[1].url, clock,
                                       item[1].next_fetch_at, FALSE))
    /\ SetStore(set_frontier_error(Store, item[1].url, item[1].source,
                                   item[1].depth, "err", retry_in_seconds,
                                   clock + d))
    /\ outcome' = "error"
    /\ rpc' = "loop"
    /\ UNCHANGED <<item, ts, processed, notRobot>>

\* Line 370, 374: time passes between two iterations.
Delay ==
    /\ rpc = "loop"
    /\ clock < MaxTime
    /\ clock' = clock + 1
    /\ UNCHANGED <<frontier, frontier_size, item, ts, outcome, processed,
                   fetched, rpc, notRobot>>

NextRobot ==
    \/ Seed
    \/ PopNext
    \/ Defer
    \/ \E links \in LinkLists, d \in 0..1 : FetchOk(TRUE, links, d)
    \/ \E d \in 0..1 : FetchOk(FALSE, <<>>, d)
    \/ \E d \in 0..1 : FetchFails(d)
    \/ Delay

SpecRobot == InitRobot /\ [][NextRobot]_vars

\* C34: when an allowed url has been fetched without error at time ts, at
\* the end of that loop iteration it is in the frontier with
\* next_fetch_at = ts + recrawl_after, and no later fetch of it starts
\* within recrawl_after of the start of that fetch.
C34_RequeuedAfterRecrawl ==
    /\ (rpc = "loop" /\ outcome = "ok") =>
          \E r \in frontier :
             /\ r.url = item[1].url
             /\ r.next_fetch_at = ts + recrawl_after
    /\ \A i \in 1..Len(fetched), j \in 1..Len(fetched) :
          (i < j /\ fetched[i].ok /\ fetched[i].url = fetched[j].url) =>
              fetched[j].at >= fetched[i].at + recrawl_after

MaxRetries == 3

Errors == {"timeout", "http500"}

Texts == {"page", "other"}

Returned(text) == [kind |-> "return", val |-> text]

Raised(e) == [kind |-> "raise", val |-> e]

Try(ok, val) == [ok |-> ok, val |-> val]

notDownload ==
    <<opsVars, cfgVars, indexVars, buildVars, loadedVars, searchVars, webVars,
      robotVars>>

\* Line 30, with the arguments bound.
InitDownload ==
    /\ retries \in (-1)..MaxRetries
    /\ gi = 0 /\ last_err = None /\ tries = <<>> /\ gres = None
    /\ gpc = "loop"
    /\ RobotIdle
    /\ OpsIdle /\ NoIndex /\ BuildIdle /\ NothingLoaded /\ SearchIdle /\ WebIdle

\* Line 31: i is in range(retries + 1).
InRange == gi < retries + 1

\* Lines 32-35: the request succeeds and its text is returned.
AttemptReturns(text) ==
    /\ gpc = "loop" /\ InRange
    /\ tries' = Append(tries, Try(TRUE, text))
    /\ gres' = Some(Returned(text))
    /\ gpc' = "done"
    /\ UNCHANGED <<retries, gi, last_err, notDownload>>

\* Lines 36-38: the request fails; the error is kept, the call sleeps
\* backoff * 2 ** i and goes on to the next i.
AttemptFails(e) ==
    /\ gpc = "loop" /\ InRange
    /\ tries' = Append(tries, Try(FALSE, e))
    /\ last_err' = Some(e)
    /\ gi' = gi + 1
    /\ UNCHANGED <<retries, gres, gpc, notDownload>>

\* Line 39: raise last_err; raising None is a TypeError.
RaiseLast ==
    /\ gpc = "loop" /\ ~InRange
    /\ gres' = Some(Raised(IF last_err = None THEN "TypeError" ELSE last_err[1]))
    /\ gpc' = "done"
    /\ UNCHANGED <<retries, gi, last_err, tries, notDownload>>

NextDownload ==
    \/ \E text \in Texts : AttemptReturns(text)
    \/ \E e \in Errors : AttemptFails(e)
    \/ RaiseLast

SpecDownload == InitDownload /\ [][NextDownload]_vars

\* Every step of the call is taken once it can be: a request ends within
\* its timeout and a sleep ends.
SpecDownloadFair == SpecDownload /\ WF_vars(NextDownload)

AllFailed == \A k \in 1..Len(tries) : ~tries[k].ok

\* C38: get_html makes at most retries + 1 requests, returns the text of
\* the first request that succeeds and makes none after it, and raises
\* the error of the last request when all of them have failed.
C38_AttemptsAndResult ==
    /\ Len(tries) <= Max2(0, retries + 1)
    /\ \A k \in 1..Len(tries) :
          tries[k].ok => /\ k = Len(tries)
                         /\ gpc = "done"
                         /\ gres = Some(Returned(tries[k].val))
    /\ (gpc = "done" /\ AllFailed) =>
          /\ Len(tries) > 0
          /\ gres = Some(Raised(tries[Len(tries)].val))

\* C38, its last part: the call always terminates.
C38_Terminates == <>(gpc = "done")

====
